---- MODULE Spec2Model ----
(***************************************************************************)
(* Release state derivation of the CAMARA release automation.              *)
(*                                                                         *)
(* The repository artifacts (tags, branches, draft releases, the           *)
(* release-plan.yaml on main, release-metadata.yaml on snapshot branches,  *)
(* open issues) are the state; ReleaseStateManager.derive_state and        *)
(* ReleaseStateManager.get_current_release_info are operators over it.     *)
(*                                                                         *)
(* Python strings are kept as the sequence of their "-"-separated          *)
(* segments, so that "r4.1-abc1234".split("-") and the fnmatch of          *)
(* "release-snapshot/{tag}-*" are computed, not assumed.                   *)
(***************************************************************************)
EXTENDS Integers, Sequences, FiniteSets, TLC

VARIABLES
    tags,       \* set of git tags (release tags) present in the repository
    tagfiles,   \* function: tag -> content of release-metadata.yaml at it
    branches,   \* function: branch name -> [sha, metadata]
    drafts,     \* set of tags that have a draft GitHub release
    plan,       \* content of release-plan.yaml on main (NoFile when absent)
    issues,     \* open issues carrying the release-issue label
    manager,    \* the attributes of the long-lived ReleaseStateManager
    ret         \* what the last call returned, Idle once an artifact changed

vars == <<tags, tagfiles, branches, drafts, plan, issues, manager, ret>>

(***************************************************************************)
(* Bounds                                                                  *)
(***************************************************************************)
MaxSha == 1         \* number of distinct base commits
MaxBranches == 2    \* number of snapshot branches that exist at the same time
MaxIssues == 1      \* number of open release issues
MaxReleases == 2    \* number of published releases in a release history
MaxExt == 2         \* highest extension number in a release history

(***************************************************************************)
(* config.py                                                               *)
(***************************************************************************)
RELEASE_PLAN_FILE == "release-plan.yaml"
RELEASE_METADATA_FILE == "release-metadata.yaml"
STATE_PLANNED == "planned"
STATE_SNAPSHOT_ACTIVE == "snapshot-active"
STATE_DRAFT_READY == "draft-ready"
STATE_PUBLISHED == "published"
STATE_NOT_PLANNED == "not-planned"
SNAPSHOT_BRANCH_PREFIX == "release-snapshot/"
RELEASE_REVIEW_BRANCH_PREFIX == "release-review/"

ReleaseState ==
    {STATE_PLANNED, STATE_SNAPSHOT_ACTIVE, STATE_DRAFT_READY,
     STATE_PUBLISHED, STATE_NOT_PLANNED}

\* An AttributeError escaping a call (x.get / x.lower on a value without it).
AttributeError == "AttributeError"

(***************************************************************************)
(* Python values.  Every value is a record tagged with its type, so that   *)
(* values of different types compare unequal instead of being confused.    *)
(***************************************************************************)
PyNone == [k |-> "NoneType"]
PyStr(segs) == [k |-> "str", s |-> segs]
PyInt(n) == [k |-> "int", n |-> n]
PyListOf(items) == [k |-> "list", len |-> Len(items), items |-> items]
\* the list of len strings "a" ("- a" in YAML)
PyList(len) == PyListOf([i \in 1..len |-> [k |-> "str", s |-> <<"a">>]])
PyDict(f) == [k |-> "dict", d |-> f]

EmptyDict == PyDict(<<>>)
EmptyStr == PyStr(<<"">>)

\* bool(v)
Truthy(v) ==
    CASE v.k = "NoneType" -> FALSE
      [] v.k = "str" -> v.s # <<"">>
      [] v.k = "int" -> v.n # 0
      [] v.k = "list" -> v.len > 0
      [] v.k = "dict" -> DOMAIN v.d # {}

\* isinstance(v, dict); only a dict has .get
IsDict(v) == v.k = "dict"

\* v.get(key, default) for a dict v
Get(v, key, default) == IF key \in DOMAIN v.d THEN v.d[key] ELSE default

\* str.lower() on one segment, for the strings of this model
LowerSeg(seg) ==
    CASE seg = "None" -> "none"
      [] seg = "NONE" -> "none"
      [] OTHER -> seg

\* v.lower() for a str v
Lower(v) == PyStr([i \in DOMAIN v.s |-> LowerSeg(v.s[i])])

(***************************************************************************)
(* Names                                                                   *)
(***************************************************************************)
\* Release tags, as segments: "r4.1" and "r4.1-rc.1".
T1 == <<"r4.1">>
T2 == <<"r4.1", "rc.1">>
Tags == {T1, T2}

ShaNames == <<"abc1234", "def5678", "0a1b2c3">>
Shas == {ShaNames[i] : i \in 1..MaxSha}

\* SnapshotCreator.generate_snapshot_id: f"{release_tag}-{short_sha}"
generate_snapshot_id(release_tag, short_sha) == Append(release_tag, short_sha)

BranchName(prefix, id) == [prefix |-> prefix, id |-> id]

\* a tag used as a ref: the name is the tag itself
TagRef(tag) == [prefix |-> "", id |-> tag]

SnapshotNames ==
    {BranchName(SNAPSHOT_BRANCH_PREFIX, generate_snapshot_id(t, s)) :
        t \in Tags, s \in Shas}
ReviewNames ==
    {BranchName(RELEASE_REVIEW_BRANCH_PREFIX, generate_snapshot_id(t, s)) :
        t \in Tags, s \in Shas}

\* fnmatch(name, f"{SNAPSHOT_BRANCH_PREFIX}{release_tag}-*"): the name starts
\* with the prefix, the tag and a "-"; "*" matches any rest.
fnmatch(name, release_tag) ==
    /\ name.prefix = SNAPSHOT_BRANCH_PREFIX
    /\ Len(name.id) > Len(release_tag)
    /\ SubSeq(name.id, 1, Len(release_tag)) = release_tag

\* Position of a branch in the listing of the branches API (by name):
\* "release-snapshot/r4.1-<hex>" sorts before "release-snapshot/r4.1-rc.1-<hex>",
\* and "release-review/..." before "release-snapshot/...".
ShaIndex(s) == CHOOSE i \in 1..Len(ShaNames) : ShaNames[i] = s
NameRank(name) ==
    (IF name.prefix = SNAPSHOT_BRANCH_PREFIX THEN 2 * Len(ShaNames) ELSE 0)
    + (IF Len(name.id) = 2 THEN 0 ELSE Len(ShaNames))
    + (IF name.id[Len(name.id)] \in Shas
       THEN ShaIndex(name.id[Len(name.id)]) ELSE 0)

(***************************************************************************)
(* File contents.  get_file_content returns None (NoFile) or the text; a   *)
(* text is kept as what yaml.safe_load makes of it.                        *)
(***************************************************************************)
NoFile == PyNone
YAMLError == [k |-> "YAMLError"]
EmptyText == [k |-> "text", empty |-> TRUE, parsed |-> PyNone]
Text(v) == [k |-> "text", empty |-> FALSE, parsed |-> v]
InvalidText == Text(YAMLError)

\* `not content` for the result of get_file_content
NotContent(content) == content = NoFile \/ content.empty

\* A dict with an optional key: the key absent, or bound to one of vals.
OptKey(key, vals) == {<<>>} \cup {key :> v : v \in vals}

TagValues == {EmptyStr, PyStr(T1), PyStr(T2)}
TypeValues ==
    {EmptyStr, PyStr(<<"none">>), PyStr(<<"None">>),
     PyStr(<<"pre", "release", "rc">>), PyInt(5)}

\* repository sections of release-plan.yaml that are mappings
PlanRepositories ==
    {PyDict(a @@ b) : a \in OptKey("target_release_tag", TagValues),
                      b \in OptKey("target_release_type", TypeValues)}

\* release-plan.yaml documents
PlanDocs ==
    {NoFile, EmptyText, InvalidText, Text(PyList(1)), Text(PyList(0)),
     Text(PyStr(<<"camara">>)),
     Text(PyDict("apis" :> PyList(1))),
     Text(PyDict("repository" :> PyNone)),
     Text(PyDict("repository" :> PyStr(<<"camara">>)))}
    \cup {Text(PyDict("repository" :> r)) : r \in PlanRepositories}

\* release-metadata.yaml documents on a snapshot branch
MetadataDocs ==
    {NoFile, InvalidText, Text(PyList(1)),
     Text(PyDict("apis" :> PyList(1))),
     Text(PyDict("repository" :> PyNone))}
    \cup {Text(PyDict("repository" :> PyDict("release_tag" :> PyStr(t)))) :
            t \in Tags}

\* release-metadata.yaml documents that get_current_snapshot reads: absent,
\* empty, unparseable, a list, an empty mapping, and mappings with and
\* without repository, apis and dependencies entries
SnapshotDocs ==
    {NoFile, EmptyText, InvalidText, Text(PyList(1)), Text(EmptyDict),
     Text(PyDict("repository" :> PyNone)),
     Text(PyDict("apis" :> PyList(1))),
     Text(PyDict(("repository"
                    :> PyDict("src_commit_sha" :> PyStr(<<"fedcba9">>)))
                 @@ ("dependencies" :> PyNone))),
     Text(PyDict(("repository"
                    :> PyDict(("src_commit_sha" :> PyStr(<<"fedcba9">>))
                              @@ ("release_type"
                                    :> PyStr(<<"pre", "release", "rc">>))))
                 @@ ("apis" :> PyList(1))
                 @@ ("dependencies"
                        :> PyDict("commonalities_release"
                                    :> PyStr(<<"r3.3">>)))))}

(***************************************************************************)
(* GitHubClient queries                                                    *)
(***************************************************************************)
tag_exists(tag) == tag \in tags

draft_release_exists(tag) == tag \in drafts

RECURSIVE SortByName(_)
SortByName(names) ==
    IF names = {} THEN <<>>
    ELSE LET first == CHOOSE n \in names :
                        \A m \in names : NameRank(n) <= NameRank(m)
         IN <<first>> \o SortByName(names \ {first})

\* list_branches(f"{SNAPSHOT_BRANCH_PREFIX}{release_tag}-*"), names only
list_branches(release_tag) ==
    SortByName({n \in DOMAIN branches : fnmatch(n, release_tag)})

\* get_file_content(path, ref)
get_file_content(path, ref) ==
    IF path = RELEASE_PLAN_FILE THEN plan
    ELSE IF ref \in DOMAIN branches THEN branches[ref].metadata
    ELSE IF ref.prefix = "" /\ ref.id \in DOMAIN tagfiles THEN tagfiles[ref.id]
    ELSE NoFile

(***************************************************************************)
(* ReleaseStateManager                                                     *)
(***************************************************************************)
\* _read_release_plan / _read_release_metadata: None when the file is
\* absent, empty or unparseable, else whatever the YAML parses to
ReadYaml(content) ==
    IF NotContent(content) THEN PyNone
    ELSE IF content.parsed = YAMLError THEN PyNone
    ELSE content.parsed

_read_release_plan == ReadYaml(get_file_content(RELEASE_PLAN_FILE, "main"))

_read_release_metadata(ref) ==
    ReadYaml(get_file_content(RELEASE_METADATA_FILE, ref))

\* Step 4 of derive_state (lines 196-207): the release-plan fallback
PlanState(p, release_tag) ==
    IF ~Truthy(p) THEN STATE_NOT_PLANNED
    ELSE IF ~IsDict(p) THEN AttributeError
    ELSE LET repository == Get(p, "repository", EmptyDict) IN
      IF ~IsDict(repository) THEN AttributeError
      ELSE LET target_tag == Get(repository, "target_release_tag", PyNone)
               release_type == Get(repository, "target_release_type", PyNone)
           IN IF target_tag # PyStr(release_tag) THEN STATE_NOT_PLANNED
              ELSE IF ~Truthy(release_type) THEN STATE_NOT_PLANNED
              ELSE IF release_type.k # "str" THEN AttributeError
              ELSE IF Lower(release_type) # PyStr(<<"none">>)
                   THEN STATE_PLANNED
                   ELSE STATE_NOT_PLANNED

\* Mutant: the snapshot branches are looked at before the tag.
derive_state_SnapshotFirst(release_tag) ==
    IF list_branches(release_tag) # <<>>
    THEN [value |-> IF draft_release_exists(release_tag)
                    THEN STATE_DRAFT_READY ELSE STATE_SNAPSHOT_ACTIVE,
          queries |-> <<"list_branches", "draft_release_exists">>]
    ELSE IF tag_exists(release_tag)
    THEN [value |-> STATE_PUBLISHED,
          queries |-> <<"list_branches", "tag_exists">>]
    ELSE [value |-> PlanState(_read_release_plan, release_tag),
          queries |-> <<"list_branches", "tag_exists", "get_file_content">>]

\* Mutant: a readable release plan decides before the snapshot branches do.
derive_state_PlanFirst(release_tag) ==
    IF tag_exists(release_tag)
    THEN [value |-> STATE_PUBLISHED, queries |-> <<"tag_exists">>]
    ELSE IF list_branches(release_tag) # <<>>
            /\ PlanState(_read_release_plan, release_tag) # STATE_PLANNED
    THEN [value |-> PlanState(_read_release_plan, release_tag),
          queries |-> <<"tag_exists", "get_file_content">>]
    ELSE IF list_branches(release_tag) # <<>>
    THEN [value |-> IF draft_release_exists(release_tag)
                    THEN STATE_DRAFT_READY ELSE STATE_SNAPSHOT_ACTIVE,
          queries |-> <<"tag_exists", "list_branches",
                        "draft_release_exists">>]
    ELSE [value |-> PlanState(_read_release_plan, release_tag),
          queries |-> <<"tag_exists", "list_branches", "get_file_content">>]

\* Mutant: a draft release alone gives DraftReady, snapshot branch or not.
derive_state_DraftAlone(release_tag) ==
    IF tag_exists(release_tag)
    THEN [value |-> STATE_PUBLISHED, queries |-> <<"tag_exists">>]
    ELSE IF draft_release_exists(release_tag)
    THEN [value |-> STATE_DRAFT_READY,
          queries |-> <<"tag_exists", "draft_release_exists">>]
    ELSE IF list_branches(release_tag) # <<>>
    THEN [value |-> STATE_SNAPSHOT_ACTIVE,
          queries |-> <<"tag_exists", "draft_release_exists",
                        "list_branches">>]
    ELSE [value |-> PlanState(_read_release_plan, release_tag),
          queries |-> <<"tag_exists", "draft_release_exists",
                        "list_branches", "get_file_content">>]

\* derive_state(release_tag): the value returned (or the exception raised)
\* and the queries issued, in order
derive_state(release_tag) ==
    IF tag_exists(release_tag)
    THEN [value |-> STATE_PUBLISHED, queries |-> <<"tag_exists">>]
    ELSE IF list_branches(release_tag) # <<>>
    THEN [value |-> IF draft_release_exists(release_tag)
                    THEN STATE_DRAFT_READY ELSE STATE_SNAPSHOT_ACTIVE,
          queries |-> <<"tag_exists", "list_branches",
                        "draft_release_exists">>]
    ELSE [value |-> PlanState(_read_release_plan, release_tag),
          queries |-> <<"tag_exists", "list_branches", "get_file_content">>]

\* `release_tag in title`, on segments
TagInTitle(release_tag, title) ==
    \E i \in 1..Len(title) :
        /\ i + Len(release_tag) - 1 <= Len(title)
        /\ SubSeq(title, i, i + Len(release_tag) - 1) = release_tag

\* find_release_issue(release_tag): the first open issue of the listing
\* (newest first) that has the workflow marker in its body and the release
\* tag in its title
find_release_issue(release_tag) ==
    LET owned == {i \in issues : i.marker /\ release_tag.k = "str"
                                  /\ TagInTitle(release_tag.s, i.title)}
    IN IF owned = {} THEN PyNone
       ELSE PyInt((CHOOSE i \in owned :
                     \A j \in owned : j.number <= i.number).number)

ConfigurationError(error_type, field_path) ==
    [k |-> "ConfigurationError", error_type |-> error_type,
     file_path |-> RELEASE_PLAN_FILE, field_path |-> field_path]

\* Mutant: the repository entry is only tested with isinstance, so an empty
\* mapping passes rule 3.
_read_release_plan_with_validation_NoEmptyCheck ==
    LET content == get_file_content(RELEASE_PLAN_FILE, "main") IN
    IF content = NoFile
    THEN [plan |-> PyNone,
          error |-> ConfigurationError("missing_file", "None")]
    ELSE IF content.parsed = YAMLError
    THEN [plan |-> PyNone,
          error |-> ConfigurationError("malformed_yaml", "None")]
    ELSE IF ~IsDict(content.parsed)
    THEN [plan |-> PyNone,
          error |-> ConfigurationError("malformed_yaml", "None")]
    ELSE LET repository == Get(content.parsed, "repository", PyNone) IN
      IF ~IsDict(repository)
      THEN [plan |-> PyNone,
            error |-> ConfigurationError("missing_field", "repository")]
      ELSE IF ~Truthy(Get(repository, "target_release_tag", PyNone))
      THEN [plan |-> PyNone,
            error |-> ConfigurationError("missing_field",
                                         "repository.target_release_tag")]
      ELSE [plan |-> content.parsed, error |-> PyNone]

\* _read_release_plan_with_validation(): (plan, error)
_read_release_plan_with_validation ==
    LET content == get_file_content(RELEASE_PLAN_FILE, "main") IN
    IF content = NoFile
    THEN [plan |-> PyNone,
          error |-> ConfigurationError("missing_file", "None")]
    ELSE IF content.parsed = YAMLError
    THEN [plan |-> PyNone,
          error |-> ConfigurationError("malformed_yaml", "None")]
    ELSE IF ~IsDict(content.parsed)
    THEN [plan |-> PyNone,
          error |-> ConfigurationError("malformed_yaml", "None")]
    ELSE LET repository == Get(content.parsed, "repository", PyNone) IN
      IF ~Truthy(repository) \/ ~IsDict(repository)
      THEN [plan |-> PyNone,
            error |-> ConfigurationError("missing_field", "repository")]
      ELSE IF ~Truthy(Get(repository, "target_release_tag", PyNone))
      THEN [plan |-> PyNone,
            error |-> ConfigurationError("missing_field",
                                         "repository.target_release_tag")]
      ELSE [plan |-> content.parsed, error |-> PyNone]

\* ReleaseInfoResult(...), with the queries issued to build it
ReleaseInfoResult(success, release_tag, state, snapshot_branch, source, config_error, release_issue_number, release_type, queries) ==
    [raised |-> "None", success |-> success, release_tag |-> release_tag,
     state |-> state, snapshot_branch |-> snapshot_branch, source |-> source,
     config_error |-> config_error,
     release_issue_number |-> release_issue_number,
     release_type |-> release_type, queries |-> queries]

\* An exception escaping get_current_release_info: nothing is returned
Raised(exception, queries) ==
    [raised |-> exception, success |-> FALSE, release_tag |-> PyNone,
     state |-> "None", snapshot_branch |-> PyNone, source |-> "None",
     config_error |-> PyNone, release_issue_number |-> PyNone,
     release_type |-> PyNone, queries |-> queries]

\* Mutant: the draft release is not looked up in the snapshot path.
SnapshotReleaseInfo_NoDraftCheck(plan_release_tag, snapshot_branch, queries) ==
    LET metadata == _read_release_metadata(snapshot_branch)
        q1 == queries \o <<"get_file_content">>
    IN
    IF Truthy(metadata) /\ ~IsDict(metadata) THEN Raised(AttributeError, q1)
    ELSE IF Truthy(metadata)
            /\ ~IsDict(Get(metadata, "repository", EmptyDict))
    THEN Raised(AttributeError, q1)
    ELSE
      LET metadata_release_tag ==
            IF Truthy(metadata)
            THEN Get(Get(metadata, "repository", EmptyDict),
                     "release_tag", PyNone)
            ELSE PyStr(<<Head(snapshot_branch.id)>>)
          effective_tag ==
            IF Truthy(metadata_release_tag) THEN metadata_release_tag
            ELSE plan_release_tag
      IN ReleaseInfoResult(TRUE, effective_tag, STATE_SNAPSHOT_ACTIVE,
                           snapshot_branch, "release-metadata.yaml", PyNone,
                           find_release_issue(effective_tag), PyNone,
                           q1 \o <<"search_issues">>)

\* get_current_release_info(), lines 385-413: a snapshot branch exists
SnapshotReleaseInfo(plan_release_tag, snapshot_branch, queries) ==
    LET metadata == _read_release_metadata(snapshot_branch)
        q1 == queries \o <<"get_file_content">>
    IN
    IF Truthy(metadata) /\ ~IsDict(metadata) THEN Raised(AttributeError, q1)
    ELSE IF Truthy(metadata)
            /\ ~IsDict(Get(metadata, "repository", EmptyDict))
    THEN Raised(AttributeError, q1)
    ELSE
      LET metadata_release_tag ==
            IF Truthy(metadata)
            THEN Get(Get(metadata, "repository", EmptyDict),
                     "release_tag", PyNone)
            ELSE \* snapshot_id.split("-")[0]
                 PyStr(<<Head(snapshot_branch.id)>>)
          effective_tag ==
            IF Truthy(metadata_release_tag) THEN metadata_release_tag
            ELSE plan_release_tag
          state ==
            IF effective_tag.k = "str" /\ draft_release_exists(effective_tag.s)
            THEN STATE_DRAFT_READY ELSE STATE_SNAPSHOT_ACTIVE
      IN ReleaseInfoResult(TRUE, effective_tag, state, snapshot_branch,
                           "release-metadata.yaml", PyNone,
                           find_release_issue(effective_tag),
                           \* 'snapshot' is never a local: always None
                           PyNone,
                           q1 \o <<"draft_release_exists", "search_issues">>)

\* Mutant: a configuration error is also reported as the NotPlanned state.
ErrorResult_AsNotPlanned(config_error) ==
    ReleaseInfoResult(FALSE, PyNone, STATE_NOT_PLANNED, PyNone, "None",
                      config_error, PyNone, PyNone, <<"get_file_content">>)

\* Mutant: the tracking issue is looked up for the error result too.
ErrorResult_WithIssueQuery(config_error) ==
    ReleaseInfoResult(FALSE, PyNone, "None", PyNone, "None", config_error,
                      find_release_issue(PyNone), PyNone,
                      <<"get_file_content", "search_issues">>)

\* Lines 363-364: the validation failed; only the release plan was read
ErrorResult(config_error) ==
    ReleaseInfoResult(FALSE, PyNone, "None", PyNone, "None", config_error,
                      PyNone, PyNone, <<"get_file_content">>)

\* get_current_release_info()
get_current_release_info ==
    LET v == _read_release_plan_with_validation
        q0 == <<"get_file_content">>
    IN
    IF v.error # PyNone THEN ErrorResult(v.error)
    ELSE
      LET repository == Get(v.plan, "repository", PyNone)
          plan_release_tag == Get(repository, "target_release_tag", PyNone)
          plan_release_type == Get(repository, "target_release_type", PyNone)
          q1 == q0 \o <<"tag_exists">>
          q2 == q1 \o <<"list_branches">>
      IN
      IF plan_release_tag.k = "str" /\ tag_exists(plan_release_tag.s)
      THEN ReleaseInfoResult(TRUE, plan_release_tag, STATE_PUBLISHED, PyNone,
                             "tag", PyNone,
                             find_release_issue(plan_release_tag),
                             plan_release_type, q1 \o <<"search_issues">>)
      ELSE IF plan_release_tag.k = "str"
              /\ list_branches(plan_release_tag.s) # <<>>
      THEN SnapshotReleaseInfo(plan_release_tag,
                               Head(list_branches(plan_release_tag.s)), q2)
      ELSE IF Truthy(plan_release_type) /\ plan_release_type.k # "str"
      THEN Raised(AttributeError, q2)
      ELSE ReleaseInfoResult(
             TRUE, plan_release_tag,
             IF Truthy(plan_release_type)
                /\ Lower(plan_release_type) # PyStr(<<"none">>)
             THEN STATE_PLANNED ELSE STATE_NOT_PLANNED,
             PyNone, "release-plan.yaml", PyNone,
             find_release_issue(plan_release_tag), plan_release_type,
             q2 \o <<"search_issues">>)

(***************************************************************************)
(* version_calculator.py.  A version string is kept as the sequence of its *)
(* tokens: numerals, words, "." and "-"; "1.2.0-rc.1" is                   *)
(* <<"1", ".", "2", ".", "0", "-", "rc", ".", "1">>.                       *)
(***************************************************************************)
TypeError == "TypeError"

\* what a call gives: a value, or an exception that escapes it
Returns(v) == [raised |-> "None", value |-> v]
Raises(exception) == [raised |-> exception, value |-> <<>>]

\* the decimal numerals: str(n) is Numerals[n + 1]
Numerals == <<"0", "1", "2", "3", "4", "5", "6", "7", "8">>
\* numerals written with a leading zero, and their values
ZeroNumerals == ("01" :> 1) @@ ("03" :> 3)

\* the token matches \d+
IsDigits(tok) ==
    \/ \E i \in DOMAIN Numerals : Numerals[i] = tok
    \/ tok \in DOMAIN ZeroNumerals

\* the token matches [a-z]+
IsLower(tok) == tok \in {"alpha", "rc", "public", "wip", "v", "vwip"}

\* int(tok) for a token of digits
int(tok) ==
    IF tok \in DOMAIN ZeroNumerals THEN ZeroNumerals[tok]
    ELSE (CHOOSE i \in DOMAIN Numerals : Numerals[i] = tok) - 1

\* str(n)
str(n) == Numerals[n + 1]

\* ^(\d+)\.(\d+)\.(\d+) at the start of the string
BaseMatches(v) ==
    /\ Len(v) >= 5
    /\ IsDigits(v[1]) /\ v[2] = "." /\ IsDigits(v[3])
    /\ v[4] = "." /\ IsDigits(v[5])

\* -([a-z]+)\.(\d+)$ after the base
SuffixMatches(v) ==
    /\ Len(v) = 9
    /\ v[6] = "-" /\ IsLower(v[7]) /\ v[8] = "." /\ IsDigits(v[9])

\* Mutant: the minor is part of the URL version of every major.
calculate_url_version_MinorAlways(api_version) ==
    IF api_version = <<"wip">> THEN <<"vwip">>
    ELSE IF ~(BaseMatches(api_version)
              /\ (Len(api_version) = 5 \/ SuffixMatches(api_version)))
    THEN <<"vwip">>
    ELSE
      LET major == int(api_version[1])
          minor == api_version[3]
          base == <<"v", str(major), ".", minor>>
      IN IF Len(api_version) = 9
         THEN base \o <<api_version[7], api_version[9]>>
         ELSE base

\* calculate_url_version(api_version)
calculate_url_version(api_version) ==
    IF api_version = <<"wip">> THEN <<"vwip">>
    ELSE IF ~(BaseMatches(api_version)
              /\ (Len(api_version) = 5 \/ SuffixMatches(api_version)))
    THEN <<"vwip">>
    ELSE
      LET major == int(api_version[1])
          minor == api_version[3]
          base == IF major = 0 THEN <<"v", "0", ".", minor>>
                  ELSE <<"v", str(major)>>
      IN IF Len(api_version) = 9
         THEN base \o <<api_version[7], api_version[9]>>
         ELSE base

\* f"{base_version}-{status}.1"
WithDummyExtension(base_version, status) ==
    base_version \o <<"-">> \o status \o <<".", "1">>

\* Mutant: versions collide only when their base versions are the same.
_parse_extension_SameBase(version, target_version, target_status) ==
    IF version.k # "str" THEN Raises(TypeError)
    ELSE IF ~(BaseMatches(version.s) /\ SuffixMatches(version.s))
    THEN Returns(PyNone)
    ELSE IF <<version.s[7]>> # target_status THEN Returns(PyNone)
    ELSE IF SubSeq(version.s, 1, 5) = target_version
         THEN Returns(PyInt(int(version.s[9])))
         ELSE Returns(PyNone)

\* _parse_extension(version, target_version, target_status): the extension
\* number, None, or the TypeError of re.match on a value that is no string
_parse_extension(version, target_version, target_status) ==
    IF version.k # "str" THEN Raises(TypeError)
    ELSE IF ~(BaseMatches(version.s) /\ SuffixMatches(version.s))
    THEN Returns(PyNone)
    ELSE IF <<version.s[7]>> # target_status THEN Returns(PyNone)
    ELSE
      LET existing_url ==
            calculate_url_version(
                WithDummyExtension(SubSeq(version.s, 1, 5), <<version.s[7]>>))
          target_url ==
            calculate_url_version(
                WithDummyExtension(target_version, <<version.s[7]>>))
      IN IF existing_url = target_url
         THEN Returns(PyInt(int(version.s[9])))
         ELSE Returns(PyNone)

\* `for api in apis`: the items iterated, or the exception of the loop.  A
\* string iterates its characters, a mapping its keys.
Iterate(apis) ==
    CASE apis.k = "list" -> Returns(apis.items)
      [] apis.k = "str" ->
            Returns(IF apis = EmptyStr THEN <<>> ELSE <<PyStr(<<"c">>)>>)
      [] apis.k = "dict" ->
            Returns(IF DOMAIN apis.d = {} THEN <<>> ELSE <<PyStr(<<"k">>)>>)
      [] OTHER -> Raises(TypeError)

\* Lines 186-195: the extensions that the entries of one release contribute
RECURSIVE ScanApis(_, _, _, _)
ScanApis(items, api_name, target_version, target_status) ==
    IF items = <<>> THEN Returns(<<>>)
    ELSE
      LET api == Head(items) IN
      IF ~IsDict(api) THEN Raises(AttributeError)
      ELSE IF Get(api, "api_name", PyNone) # PyStr(api_name)
      THEN ScanApis(Tail(items), api_name, target_version, target_status)
      ELSE
        LET ext == _parse_extension(Get(api, "api_version", EmptyStr),
                                    target_version, target_status)
            rest == ScanApis(Tail(items), api_name, target_version,
                             target_status)
        IN IF ext.raised # "None" THEN ext
           ELSE IF rest.raised # "None" THEN rest
           ELSE IF ext.value = PyNone THEN rest
           ELSE Returns(<<ext.value.n>> \o rest.value)

\* VersionCalculator._read_release_metadata(tag)
VersionCalculator_read_release_metadata(tag) ==
    ReadYaml(get_file_content(RELEASE_METADATA_FILE, TagRef(tag)))

\* Lines 180-195 for one release
ScanRelease(tag, api_name, target_version, target_status) ==
    LET metadata == VersionCalculator_read_release_metadata(tag) IN
    IF ~Truthy(metadata) THEN Returns(<<>>)
    ELSE IF ~IsDict(metadata) THEN Raises(AttributeError)
    ELSE
      LET apis == Iterate(Get(metadata, "apis", PyListOf(<<>>))) IN
      IF apis.raised # "None" THEN apis
      ELSE ScanApis(apis.value, api_name, target_version, target_status)

\* the release tags of this model, in the order of the releases listing
TagOrder ==
    <<T1, T2, <<"r3.4">>, <<"r3.3">>, <<"r3.2">>, <<"r3.1">>, <<"r3.0">>>>

RECURSIVE SortTags(_)
SortTags(ts) ==
    IF ts = {} THEN <<>>
    ELSE LET first == CHOOSE t \in ts :
                        \A i, j \in DOMAIN TagOrder :
                            (TagOrder[i] = t /\ TagOrder[j] \in ts) => i <= j
         IN <<first>> \o SortTags(ts \ {first})

\* get_releases(include_drafts=False): the tag names of the published
\* releases; a draft release has no tag yet and is left out
get_releases == SortTags(tags)

RECURSIVE ScanReleases(_, _, _, _)
ScanReleases(releases, api_name, target_version, target_status) ==
    IF releases = <<>> THEN Returns(<<>>)
    ELSE
      LET here == ScanRelease(Head(releases), api_name, target_version,
                              target_status)
      IN IF here.raised # "None" THEN here
         ELSE LET rest == ScanReleases(Tail(releases), api_name,
                                       target_version, target_status)
              IN IF rest.raised # "None" THEN rest
                 ELSE Returns(here.value \o rest.value)

\* find_existing_extensions(api_name, target_version, target_status)
find_existing_extensions(api_name, target_version, target_status) ==
    ScanReleases(get_releases, api_name, target_version, target_status)

\* max(existing)
Max(existing) ==
    CHOOSE m \in {existing[i] : i \in DOMAIN existing} :
        \A i \in DOMAIN existing : existing[i] <= m

\* f"{target_version}-{target_status}.{next_ext}"
Extended(target_version, target_status, next_ext) ==
    target_version \o <<"-">> \o target_status \o <<".", str(next_ext)>>

\* the queries of a scan of the releases: the listing, and the file of each
\* release until the scan ends
ScanQueries ==
    IF tags = {} THEN <<"get_releases">>
    ELSE <<"get_releases", "get_file_content">>

\* what calculate_version gives: the value or exception, and the queries
\* (each kind once)
VersionResult(raised, value, queries) ==
    [raised |-> raised, value |-> value, queries |-> queries]

\* Mutant: a public version is looked up like any other.
calculate_version_NoPassthrough(api_name, target_version, target_status) ==
    LET existing == find_existing_extensions(api_name, target_version,
                                             target_status)
        queries == ScanQueries
    IN IF existing.raised # "None"
       THEN VersionResult(existing.raised, <<>>, queries)
       ELSE VersionResult("None",
                Extended(target_version, target_status,
                         IF existing.value # <<>>
                         THEN Max(existing.value) + 1 ELSE 1),
                queries)

\* Mutant: the next extension is the number of extensions found plus one.
calculate_version_CountPlusOne(api_name, target_version, target_status) ==
    IF target_status = <<"public">>
    THEN VersionResult("None", target_version, <<>>)
    ELSE
      LET existing == find_existing_extensions(api_name, target_version,
                                               target_status)
          queries == ScanQueries
      IN IF existing.raised # "None"
         THEN VersionResult(existing.raised, <<>>, queries)
         ELSE VersionResult("None",
                  Extended(target_version, target_status,
                           Len(existing.value) + 1),
                  queries)

\* Mutant: the highest extension found is used again.
calculate_version_MaxAgain(api_name, target_version, target_status) ==
    IF target_status = <<"public">>
    THEN VersionResult("None", target_version, <<>>)
    ELSE
      LET existing == find_existing_extensions(api_name, target_version,
                                               target_status)
          queries == ScanQueries
      IN IF existing.raised # "None"
         THEN VersionResult(existing.raised, <<>>, queries)
         ELSE VersionResult("None",
                  Extended(target_version, target_status,
                           IF existing.value # <<>>
                           THEN Max(existing.value) ELSE 1),
                  queries)

\* calculate_version(api_name, target_version, target_status)
calculate_version(api_name, target_version, target_status) ==
    IF target_status = <<"public">>
    THEN VersionResult("None", target_version, <<>>)
    ELSE
      LET existing == find_existing_extensions(api_name, target_version,
                                               target_status)
          queries == ScanQueries
      IN IF existing.raised # "None"
         THEN VersionResult(existing.raised, <<>>, queries)
         ELSE VersionResult("None",
                  Extended(target_version, target_status,
                           IF existing.value # <<>>
                           THEN Max(existing.value) + 1 ELSE 1),
                  queries)

\* Lines 215-223: the versions of the entries, a later entry of the same
\* api_name replacing an earlier one
RECURSIVE PlanVersions(_)
PlanVersions(items) ==
    IF items = <<>> THEN Returns(<<>>)
    ELSE
      LET api == Head(items) IN
      IF ~IsDict(api) THEN Raises(AttributeError)
      ELSE
        LET api_name == Get(api, "api_name", PyNone)
            target_version == Get(api, "target_api_version", PyNone)
            target_status ==
                Get(api, "target_api_status", PyStr(<<"public">>))
        IN IF ~(Truthy(api_name) /\ Truthy(target_version))
           THEN PlanVersions(Tail(items))
           ELSE
             LET version == calculate_version(api_name.s, target_version.s,
                                              target_status.s)
                 rest == PlanVersions(Tail(items))
             IN IF version.raised # "None" THEN Raises(version.raised)
                ELSE IF rest.raised # "None" THEN rest
                ELSE Returns(rest.value @@ (api_name.s :> version.value))

\* Mutant: an entry without target_api_version is not skipped; its version
\* is calculated from the empty string.
calculate_versions_for_plan_NoSkip(release_plan) ==
    LET RECURSIVE Versions(_)
        Versions(items) ==
            IF items = <<>> THEN Returns(<<>>)
            ELSE
              LET api == Head(items) IN
              IF ~IsDict(api) THEN Raises(AttributeError)
              ELSE
                LET api_name == Get(api, "api_name", PyNone)
                    target_version ==
                        Get(api, "target_api_version", EmptyStr)
                    target_status ==
                        Get(api, "target_api_status", PyStr(<<"public">>))
                IN IF ~Truthy(api_name) THEN Versions(Tail(items))
                   ELSE
                     LET version ==
                            calculate_version(api_name.s, target_version.s,
                                              target_status.s)
                         rest == Versions(Tail(items))
                     IN IF version.raised # "None"
                        THEN Raises(version.raised)
                        ELSE IF rest.raised # "None" THEN rest
                        ELSE Returns(rest.value
                                     @@ (api_name.s :> version.value))
    IN
    IF ~IsDict(release_plan) THEN Raises(AttributeError)
    ELSE LET apis == Iterate(Get(release_plan, "apis", PyListOf(<<>>))) IN
         IF apis.raised # "None" THEN apis ELSE Versions(apis.value)

\* calculate_versions_for_plan(release_plan)
calculate_versions_for_plan(release_plan) ==
    IF ~IsDict(release_plan) THEN Raises(AttributeError)
    ELSE LET apis == Iterate(Get(release_plan, "apis", PyListOf(<<>>))) IN
         IF apis.raised # "None" THEN apis ELSE PlanVersions(apis.value)

\* get_branch_creation_time(branch): the committer date of the head of the
\* branch, None when it is not known
get_branch_creation_time(branch) ==
    IF "created" \in DOMAIN branches[branch]
    THEN PyInt(branches[branch].created) ELSE PyNone

\* SnapshotInfo(...); no pull request is open on a release-review branch
SnapshotInfo(snapshot_id, snapshot_branch, release_review_branch, src_commit_sha, created_at, release_type, apis, commonalities_release, identity_consent_management_release) ==
    [k |-> "SnapshotInfo", snapshot_id |-> snapshot_id,
     snapshot_branch |-> snapshot_branch,
     release_review_branch |-> release_review_branch,
     src_commit_sha |-> src_commit_sha, created_at |-> created_at,
     release_pr_number |-> PyNone,
     release_type |-> release_type, apis |-> apis,
     commonalities_release |-> commonalities_release,
     identity_consent_management_release
        |-> identity_consent_management_release]

\* get_current_snapshot(release_tag)
get_current_snapshot(release_tag) ==
    LET matching == list_branches(release_tag) IN
    IF matching = <<>> THEN Returns(PyNone)
    ELSE
      LET branch_name == matching[1]
          branch == branches[branch_name]
          snapshot_id == branch_name.id
          metadata == _read_release_metadata(branch_name)
          release_review_branch ==
              BranchName(RELEASE_REVIEW_BRANCH_PREFIX, snapshot_id)
          sha == PyStr(<<branch.sha>>)
          created_at == get_branch_creation_time(branch_name)
      IN
      IF ~Truthy(metadata)
      THEN Returns(SnapshotInfo(snapshot_id, branch_name,
                                release_review_branch, sha, created_at,
                                EmptyStr, PyListOf(<<>>), EmptyStr,
                                EmptyStr))
      ELSE IF ~IsDict(metadata) THEN Raises(AttributeError)
      ELSE
        LET repo_section == Get(metadata, "repository", EmptyDict)
            deps == Get(metadata, "dependencies", EmptyDict)
        IN IF ~IsDict(repo_section) \/ ~IsDict(deps)
           THEN Raises(AttributeError)
           ELSE Returns(SnapshotInfo(
                    snapshot_id, branch_name, release_review_branch,
                    Get(repo_section, "src_commit_sha", sha), created_at,
                    Get(repo_section, "release_type", EmptyStr),
                    Get(metadata, "apis", PyListOf(<<>>)),
                    Get(deps, "commonalities_release", EmptyStr),
                    Get(deps, "identity_consent_management_release",
                        EmptyStr)))

(***************************************************************************)
(* Calls of the state manager.  ret keeps what the call returned.          *)
(***************************************************************************)
Idle == [op |-> "none", arg |-> <<>>, out |-> <<>>]

artifacts == <<tags, tagfiles, branches, drafts, plan, issues>>

\* ReleaseStateManager.__init__: the manager holds the client, nothing else
NewManager == [gh |-> "GitHubClient"]

\* Mutant: the manager keeps the state it derived last for a tag.
DeriveStateCall_Cached(release_tag) ==
    LET cache == IF "cache" \in DOMAIN manager THEN manager.cache ELSE <<>>
        out == IF release_tag \in DOMAIN cache THEN cache[release_tag]
               ELSE derive_state(release_tag)
    IN
    /\ ret' = [op |-> "derive_state", arg |-> release_tag, out |-> out]
    /\ manager' = [gh |-> manager.gh,
                   cache |-> (release_tag :> out) @@ cache]
    /\ UNCHANGED artifacts

DeriveStateCall(release_tag) ==
    /\ ret' = [op |-> "derive_state", arg |-> release_tag,
               out |-> derive_state(release_tag)]
    /\ UNCHANGED <<artifacts, manager>>

GetCurrentReleaseInfoCall ==
    /\ ret' = [op |-> "get_current_release_info", arg |-> <<>>,
               out |-> get_current_release_info]
    /\ UNCHANGED <<artifacts, manager>>

GetCurrentSnapshotCall(release_tag) ==
    /\ ret' = [op |-> "get_current_snapshot", arg |-> release_tag,
               out |-> get_current_snapshot(release_tag)]
    /\ UNCHANGED <<artifacts, manager>>

(***************************************************************************)
(* SpecQuery: the two queries on every repository content within bounds.   *)
(***************************************************************************)
Branch(name, metadata) ==
    [sha |-> name.id[Len(name.id)], metadata |-> metadata]

IssuePool ==
    {[number |-> 11, marker |-> TRUE, title |-> T1],
     [number |-> 12, marker |-> TRUE, title |-> T2],
     [number |-> 13, marker |-> FALSE, title |-> T1]}

\* plans that pass validation and differ only where a snapshot path looks
SnapshotPlans ==
    {Text(PyDict("repository" :>
            PyDict(("target_release_tag" :> PyStr(t)) @@ b))) :
        t \in Tags,
        b \in OptKey("target_release_type",
                     {PyStr(<<"none">>), PyStr(<<"pre", "release", "rc">>)})}

\* Every release-plan document with every set of tags, drafts and snapshot
\* branches; every release-metadata document on the branches, under the plans
\* that reach the snapshot path; every set of issues, under the same plans.
InitQuery ==
    /\ tags \in SUBSET Tags
    /\ tagfiles = [t \in tags |-> NoFile]
    /\ drafts \in SUBSET Tags
    /\ \E names \in SUBSET SnapshotNames :
         /\ Cardinality(names) <= MaxBranches
         /\ \/ /\ plan \in PlanDocs
               /\ branches = [n \in names |-> Branch(n, NoFile)]
               /\ issues = {}
            \/ /\ plan \in SnapshotPlans
               /\ \E m \in [names -> MetadataDocs] :
                       branches = [n \in names |-> Branch(n, m[n])]
               /\ issues = {}
            \/ /\ plan \in SnapshotPlans
               /\ branches = [n \in names |-> Branch(n, NoFile)]
               /\ issues \in {i \in SUBSET IssuePool :
                                Cardinality(i) <= MaxIssues}
    /\ manager = NewManager
    /\ ret = Idle

NextQuery ==
    \/ \E t \in Tags : DeriveStateCall(t)
    \/ GetCurrentReleaseInfoCall

SpecQuery == InitQuery /\ [][NextQuery]_vars

(***************************************************************************)
(* SpecSnapshot: get_current_snapshot on every set of snapshot branches    *)
(* and every release-metadata document on them.                            *)
(***************************************************************************)
\* the orders in which the branches were created: the head of each branch
\* has its own committer date
CreationOrders(names) ==
    {c \in [names -> 1..Cardinality(names)] :
        \A n, m \in names : n # m => c[n] # c[m]}

InitSnapshot ==
    /\ tags = {}
    /\ tagfiles = <<>>
    /\ drafts = {}
    /\ plan = NoFile
    /\ issues = {}
    /\ \E names \in SUBSET SnapshotNames :
         /\ Cardinality(names) <= MaxBranches
         /\ \E m \in [names -> SnapshotDocs] :
              \E created \in CreationOrders(names) :
                 branches = [n \in names |->
                                [sha |-> Branch(n, m[n]).sha,
                                 metadata |-> m[n],
                                 created |-> created[n]]]
    /\ manager = NewManager
    /\ ret = Idle

NextSnapshot == \E t \in Tags : GetCurrentSnapshotCall(t)

SpecSnapshot == InitSnapshot /\ [][NextSnapshot]_vars

(***************************************************************************)
(* SpecVersion: the version calculator on every release history within     *)
(* bounds.                                                                 *)
(***************************************************************************)
\* a call that has been made and has not returned
Calling(op, arg) == [op |-> op, arg |-> arg, out |-> [raised |-> "calling"]]

InCall(op) == ret.op = op /\ ret.out.raised = "calling"

CalculateUrlVersionCall ==
    /\ InCall("calculate_url_version")
    /\ ret' = [ret EXCEPT !.out = Returns(calculate_url_version(ret.arg))]
    /\ UNCHANGED <<artifacts, manager>>

CalculateVersionCall ==
    /\ InCall("calculate_version")
    /\ ret' = [ret EXCEPT !.out = calculate_version(ret.arg[1], ret.arg[2],
                                                    ret.arg[3])]
    /\ UNCHANGED <<artifacts, manager>>

FindExistingExtensionsCall ==
    /\ InCall("find_existing_extensions")
    /\ ret' = [ret EXCEPT !.out = find_existing_extensions(ret.arg[1],
                                                           ret.arg[2],
                                                           ret.arg[3])]
    /\ UNCHANGED <<artifacts, manager>>

CalculateVersionsForPlanCall ==
    /\ InCall("calculate_versions_for_plan")
    /\ ret' = [ret EXCEPT !.out = calculate_versions_for_plan(ret.arg)]
    /\ UNCHANGED <<artifacts, manager>>

ApiNames == {<<"qod">>, <<"loc">>}

Version(major, minor, patch) == <<major, ".", minor, ".", patch>>

\* base versions: two minors of major 1, another major, major 1 and minor 3
\* written with a leading zero, two patches and two minors of major 0
BaseVersions ==
    {Version("1", "2", "0"), Version("1", "3", "1"), Version("2", "2", "0"),
     Version("01", "2", "0"), Version("0", "3", "0"), Version("0", "3", "1"),
     Version("0", "2", "0"), Version("0", "03", "0")}

\* target versions: the base versions, work in progress, and a string that
\* is no version
TargetVersions == BaseVersions \cup {<<"wip">>, <<"1", ".", "2">>}

PreReleases == {<<"alpha">>, <<"rc">>}
Statuses == PreReleases \cup {<<"public">>}

\* api_version values found in release metadata
ReleasedVersions ==
    {Extended(b, s, n) : b \in BaseVersions, s \in PreReleases,
                         n \in 1..MaxExt}
    \cup {Version("1", "2", "0"), Version("0", "3", "0"), <<"wip">>,
          <<"wip", "-", "rc", ".", "1">>,
          <<"1", ".", "2", ".", "0", "-", "RC", ".", "1">>,
          <<"1", ".", "2", ".", "0", "-", "rc", ".", "03">>}

ApiEntry(api_name, api_version) ==
    PyDict(("api_name" :> PyStr(api_name))
           @@ ("api_version" :> PyStr(api_version)))

MetadataWith(items) == Text(PyDict("apis" :> PyListOf(items)))

\* release metadata that cannot be scanned, or holds nothing to scan
OddMetadata ==
    {NoFile, EmptyText, InvalidText, Text(PyList(1)),
     Text(PyDict("repository" :> EmptyDict)),
     Text(PyDict("apis" :> PyNone)),
     Text(PyDict("apis" :> PyStr(<<"qod">>))),
     MetadataWith(<<PyStr(<<"qod">>)>>),
     MetadataWith(<<PyDict("api_name" :> PyStr(<<"qod">>))>>),
     MetadataWith(<<PyDict(("api_name" :> PyStr(<<"qod">>))
                           @@ ("api_version" :> PyNone))>>)}

\* the metadata of a history of several releases: the pre-releases of one
\* API under major 1
HistoryMetadata ==
    {NoFile, Text(PyList(1)), Text(PyDict("apis" :> PyNone))}
    \cup {MetadataWith(<<ApiEntry(<<"qod">>, Extended(b, <<"rc">>, n))>>) :
            b \in {Version("1", "2", "0"), Version("1", "3", "1")},
            n \in 1..MaxExt}

\* the metadata of a single release: every odd document, every version of
\* every API, and two entries in one document
SingleMetadata ==
    OddMetadata
    \cup {MetadataWith(<<ApiEntry(a, v)>>) :
            a \in ApiNames, v \in ReleasedVersions}
    \cup {MetadataWith(<<ApiEntry(<<"qod">>, Extended(b, <<"rc">>, 1)),
                         ApiEntry(a, Extended(Version("1", "2", "0"),
                                              <<"rc">>, MaxExt))>>) :
            a \in ApiNames,
            b \in {Version("1", "3", "1"), Version("0", "3", "0")}}

HistoryTags == {TagOrder[i] : i \in 3..(2 + MaxReleases)}

\* release plans given to calculate_versions_for_plan
PlanEntries ==
    {PyDict(a @@ b @@ c) :
        a \in OptKey("api_name", {EmptyStr, PyStr(<<"qod">>)}),
        b \in OptKey("target_api_version",
                     {EmptyStr, PyStr(Version("1", "2", "0"))}),
        c \in OptKey("target_api_status", {PyStr(<<"rc">>)})}

VersionPlans ==
    {EmptyDict, PyDict("apis" :> PyListOf(<<>>))}
    \cup {PyDict("apis" :> PyListOf(<<e>>)) : e \in PlanEntries}
    \cup {PyDict("apis" :> PyListOf(<<e, f>>)) :
            e, f \in {PyDict(("api_name" :> PyStr(<<"qod">>))
                             @@ ("target_api_version"
                                    :> PyStr(Version("1", "2", "0")))
                             @@ ("target_api_status" :> PyStr(<<"rc">>))),
                      PyDict(("api_name" :> PyStr(<<"loc">>))
                             @@ ("target_api_version"
                                    :> PyStr(Version("0", "3", "1")))),
                      PyDict("api_name" :> PyStr(<<"loc">>))}}

\* the calls made: every operation of the calculator on arguments within
\* bounds
VersionCalls ==
    {Calling("calculate_url_version", v) :
        v \in TargetVersions \cup ReleasedVersions}
    \cup {Calling("calculate_version", <<a, v, s>>) :
            a \in ApiNames, v \in TargetVersions, s \in Statuses}
    \cup {Calling("find_existing_extensions", <<a, v, s>>) :
            a \in ApiNames, v \in TargetVersions, s \in PreReleases}
    \cup {Calling("calculate_versions_for_plan", p) : p \in VersionPlans}

InitVersion ==
    /\ \/ /\ tags \in SUBSET HistoryTags
          /\ tagfiles \in [tags -> HistoryMetadata]
       \/ /\ tags = {TagOrder[3]}
          /\ tagfiles \in [tags -> SingleMetadata]
    /\ branches = <<>>
    /\ drafts = {}
    /\ plan = NoFile
    /\ issues = {}
    /\ manager = NewManager
    /\ ret \in VersionCalls

NextVersion ==
    \/ CalculateUrlVersionCall
    \/ CalculateVersionCall
    \/ FindExistingExtensionsCall
    \/ CalculateVersionsForPlanCall

SpecVersion == InitVersion /\ [][NextVersion]_vars

(***************************************************************************)
(* Spec: the release lifecycle.  The automation and the maintainers change *)
(* the artifacts; the state manager is queried in between.                 *)
(***************************************************************************)
RcPlan(release_tag) ==
    Text(PyDict("repository" :>
        PyDict(("target_release_tag" :> PyStr(release_tag))
               @@ ("target_release_type" :> PyStr(<<"pre", "release", "rc">>)))))

NonePlan(release_tag) ==
    Text(PyDict("repository" :>
        PyDict(("target_release_tag" :> PyStr(release_tag))
               @@ ("target_release_type" :> PyStr(<<"none">>)))))

\* what maintainers commit as release-plan.yaml on main
LifecyclePlans ==
    {NoFile, Text(PyList(1)), RcPlan(T1), NonePlan(T1), RcPlan(T2)}

Init ==
    /\ tags = {}
    /\ tagfiles = <<>>
    /\ branches = <<>>
    /\ drafts = {}
    /\ plan = NoFile
    /\ issues = {}
    /\ manager = NewManager
    /\ ret = Idle

SnapshotBranches == {n \in DOMAIN branches : n.prefix = SNAPSHOT_BRANCH_PREFIX}

Without(names) == [n \in DOMAIN branches \ names |-> branches[n]]

\* A maintainer merges a change of release-plan.yaml into main.
EditPlan(p) ==
    /\ p # plan
    /\ plan' = p
    /\ ret' = Idle
    /\ UNCHANGED <<tags, tagfiles, branches, drafts, issues, manager>>

\* Mutant: the Published branch of the check is missing.
validate_preconditions_NoPublishedCheck(release_tag) ==
    LET state == derive_state(release_tag).value IN
    CASE state = STATE_SNAPSHOT_ACTIVE -> <<"snapshot already exists">>
      [] state = STATE_DRAFT_READY -> <<"draft release already exists">>
      [] state = STATE_NOT_PLANNED -> <<"not planned">>
      [] OTHER -> <<>>

\* validate_preconditions(release_tag): one message unless Planned
validate_preconditions(release_tag) ==
    LET state == derive_state(release_tag).value IN
    CASE state = STATE_PUBLISHED -> <<"already published">>
      [] state = STATE_SNAPSHOT_ACTIVE -> <<"snapshot already exists">>
      [] state = STATE_DRAFT_READY -> <<"draft release already exists">>
      [] state = STATE_NOT_PLANNED -> <<"not planned">>
      [] state = STATE_PLANNED -> <<>>
      [] OTHER -> <<"unexpected state">>

SnapshotResult(success, errors, snapshot_branch) ==
    [success |-> success, errors |-> errors,
     snapshot_branch |-> snapshot_branch]

\* MetadataGenerator._build_api_list, api_name and api_version of each entry:
\* the calculated version, or the target version of an entry that has none
RECURSIVE _build_api_list(_, _)
_build_api_list(items, api_versions) ==
    IF items = <<>> THEN <<>>
    ELSE
      LET api == Head(items)
          api_name == Get(api, "api_name", PyNone)
          rest == _build_api_list(Tail(items), api_versions)
      IN IF ~Truthy(api_name) THEN rest
         ELSE
           LET version ==
                 IF api_name.s \in DOMAIN api_versions
                 THEN PyStr(api_versions[api_name.s])
                 ELSE Get(api, "target_api_version", EmptyStr)
           IN <<PyDict(("api_name" :> api_name)
                       @@ ("api_version" :> version))>> \o rest

\* release-metadata.yaml as MetadataGenerator.generate writes it from the
\* release plan and the calculated versions: repository.release_tag is the
\* plan's target_release_tag, apis the list of the plan's APIs
GenerateMetadata(release_plan, api_versions) ==
    Text(PyDict(
        ("repository" :> PyDict("release_tag" :>
            Get(Get(release_plan, "repository", EmptyDict),
                "target_release_tag", EmptyStr)))
        @@ ("apis" :> PyListOf(_build_api_list(
                Get(release_plan, "apis", PyListOf(<<>>)).items,
                api_versions)))))

\* create_snapshot(release_plan, config) with config.release_tag,
\* config.src_commit_sha and config.dry_run.  failure names the step that
\* fails after validation ("none": no step fails); deleted holds the prefixes
\* of the two branches of this run that _cleanup_branches manages to delete.
CreateSnapshot(release_tag, sha, dry_run, failure, deleted) ==
    \E api_versions \in {calculate_versions_for_plan(_read_release_plan)} :
    LET snapshot_id == generate_snapshot_id(release_tag, sha)
        snapshot_branch == BranchName(SNAPSHOT_BRANCH_PREFIX, snapshot_id)
        release_review_branch ==
            BranchName(RELEASE_REVIEW_BRANCH_PREFIX, snapshot_id)
        metadata == GenerateMetadata(_read_release_plan, api_versions.value)
        pushed ==
            CASE failure = "transform" -> <<>>
              [] failure = "push_review" ->
                    (snapshot_branch :> Branch(snapshot_branch, metadata))
              [] OTHER ->
                    (snapshot_branch :> Branch(snapshot_branch, metadata))
                    @@ (release_review_branch :>
                            Branch(release_review_branch, metadata))
        after == pushed @@ branches
    IN
    /\ UNCHANGED <<tags, tagfiles, drafts, plan, issues, manager>>
    /\ IF derive_state(release_tag).value = AttributeError
       THEN \* caught by `except Exception`; nothing to clean up
            /\ ret' = [op |-> "create_snapshot", arg |-> release_tag,
                       out |-> SnapshotResult(FALSE, <<"Unexpected error">>,
                                              PyNone)]
            /\ UNCHANGED branches
       ELSE IF validate_preconditions(release_tag) # <<>>
       THEN /\ ret' = [op |-> "create_snapshot", arg |-> release_tag,
                       out |-> SnapshotResult(
                                 FALSE, validate_preconditions(release_tag),
                                 PyNone)]
            /\ UNCHANGED branches
       ELSE IF api_versions.raised # "None"
       THEN \* Step 4 raised; caught by `except Exception`
            /\ ret' = [op |-> "create_snapshot", arg |-> release_tag,
                       out |-> SnapshotResult(FALSE, <<"Unexpected error">>,
                                              PyNone)]
            /\ UNCHANGED branches
       ELSE IF dry_run
       THEN /\ ret' = [op |-> "create_snapshot", arg |-> release_tag,
                       out |-> SnapshotResult(TRUE, <<>>, snapshot_branch)]
            /\ UNCHANGED branches
       ELSE IF failure = "none"
       THEN /\ Cardinality(SnapshotBranches) < MaxBranches
            /\ ret' = [op |-> "create_snapshot", arg |-> release_tag,
                       out |-> SnapshotResult(TRUE, <<>>, snapshot_branch)]
            /\ branches' = after
       ELSE /\ Cardinality(SnapshotBranches) < MaxBranches
            /\ ret' = [op |-> "create_snapshot", arg |-> release_tag,
                       out |-> SnapshotResult(FALSE, <<failure>>,
                                              snapshot_branch)]
            /\ branches' =
                 [n \in DOMAIN after \
                        {b \in {snapshot_branch, release_review_branch} :
                            b.prefix \in deleted} |-> after[n]]

\* GitHubClient.delete_branch(branch_name), as /discard-snapshot uses it
DeleteBranch(name) ==
    /\ name \in DOMAIN branches
    /\ branches' = Without({name})
    /\ ret' = Idle
    /\ UNCHANGED <<tags, tagfiles, drafts, plan, issues, manager>>

\* The Release PR is merged: a draft release for release_tag is created.
CreateDraft(release_tag) ==
    /\ release_tag \notin drafts
    /\ drafts' = drafts \cup {release_tag}
    /\ ret' = Idle
    /\ UNCHANGED <<tags, tagfiles, branches, plan, issues, manager>>

\* /delete-draft
DeleteDraft(release_tag) ==
    /\ release_tag \in drafts
    /\ drafts' = drafts \ {release_tag}
    /\ ret' = Idle
    /\ UNCHANGED <<tags, tagfiles, branches, plan, issues, manager>>

\* publish_release(release_tag, snapshot_branch); update_ok: the commit of
\* release_date and the release update both succeed.  The tag, unless it
\* exists, is created on the commit that finalized release-metadata.yaml.
PublishRelease(release_tag, snapshot_branch, update_ok) ==
    LET content == get_file_content(RELEASE_METADATA_FILE, snapshot_branch)
        finalized == /\ ~NotContent(content)
                     /\ content.parsed # YAMLError
                     /\ IsDict(content.parsed)
        success == release_tag \in drafts /\ finalized /\ update_ok
    IN
    /\ ret' = [op |-> "publish_release", arg |-> release_tag,
               out |-> [success |-> success]]
    /\ IF success
       THEN /\ drafts' = drafts \ {release_tag}
            /\ tags' = tags \cup {release_tag}
            /\ tagfiles' = IF release_tag \in tags THEN tagfiles
                           ELSE (release_tag :> content) @@ tagfiles
       ELSE UNCHANGED <<tags, tagfiles, drafts>>
    /\ UNCHANGED <<branches, plan, issues, manager>>

\* cleanup_branches(snapshot_branch, release_review_branch) after the
\* publication of release_tag: the snapshot branch is deleted and the review
\* branch renamed to "<name>-published".  The renamed branch leaves the
\* release-review/{snapshot_id} names, the only ones any operation reads.
CleanupBranches(release_tag, snapshot_branch) ==
    LET release_review_branch ==
            BranchName(RELEASE_REVIEW_BRANCH_PREFIX, snapshot_branch.id)
    IN
    /\ release_tag \in tags
    /\ snapshot_branch \in SnapshotBranches
    /\ fnmatch(snapshot_branch, release_tag)
    /\ branches' = Without({snapshot_branch, release_review_branch})
    /\ ret' = Idle
    /\ UNCHANGED <<tags, tagfiles, drafts, plan, issues, manager>>

\* how a run of create_snapshot can go: <<dry_run, failing step, prefixes of
\* the branches that the cleanup deletes>>
SnapshotRuns ==
    {<<TRUE, "none", {}>>, <<FALSE, "none", {}>>}
    \cup {<<FALSE, f, d>> :
            f \in {"transform", "push_review", "create_pr"},
            d \in SUBSET {SNAPSHOT_BRANCH_PREFIX,
                          RELEASE_REVIEW_BRANCH_PREFIX}}

\* A refused run does the same whatever the commit and the later steps are:
\* one run stands for all of them.
Distinguished(planned, sha, run) ==
    \/ planned
    \/ (sha = ShaNames[1] /\ run = <<FALSE, "none", {}>>)

\* some branch matches release-snapshot/{release_tag}-*
SnapshotBranchMatches(release_tag) ==
    \E n \in DOMAIN branches : fnmatch(n, release_tag)

\* The branch a release is published from: the snapshot branch of the
\* release as get_current_snapshot reports it (the first of the listing);
\* without one, a name that no branch has.
PublishedBranch(release_tag) ==
    IF SnapshotBranchMatches(release_tag)
    THEN Head(list_branches(release_tag))
    ELSE BranchName(SNAPSHOT_BRANCH_PREFIX,
                    generate_snapshot_id(release_tag, ShaNames[1]))

Next ==
    \/ \E t \in Tags : DeriveStateCall(t)
    \/ GetCurrentReleaseInfoCall
    \/ \E p \in LifecyclePlans : EditPlan(p)
    \/ \E t \in Tags :
         \E planned \in {derive_state(t).value = STATE_PLANNED} :
           \E s \in Shas, run \in SnapshotRuns :
                /\ Distinguished(planned, s, run)
                /\ CreateSnapshot(t, s, run[1], run[2], run[3])
    \/ \E n \in SnapshotNames \cup ReviewNames : DeleteBranch(n)
    \/ \E t \in Tags : CreateDraft(t)
    \/ \E t \in Tags : DeleteDraft(t)
    \/ \E t \in Tags :
         \E n \in {PublishedBranch(t)} :
           \E ok \in BOOLEAN :
              /\ ok \/ (t \in drafts /\ n \in DOMAIN branches)
              /\ PublishRelease(t, n, ok)
    \/ \E t \in Tags, n \in SnapshotNames : CleanupBranches(t, n)

Spec == Init /\ [][Next]_vars

(***************************************************************************)
(* SpecRelease: releases of one API.  The plans name the API and its       *)
(* target version; snapshots are created, discarded and published.         *)
(***************************************************************************)
ApiPlan(release_tag, target_version) ==
    Text(PyDict(
        ("repository" :>
            PyDict(("target_release_tag" :> PyStr(release_tag))
                   @@ ("target_release_type"
                          :> PyStr(<<"pre", "release", "rc">>))))
        @@ ("apis" :> PyListOf(<<
                PyDict(("api_name" :> PyStr(<<"qod">>))
                       @@ ("target_api_version" :> PyStr(target_version))
                       @@ ("target_api_status" :> PyStr(<<"rc">>)))>>))))

ReleasePlans ==
    {ApiPlan(t, v) :
        t \in Tags, v \in {Version("1", "2", "0"), Version("1", "3", "1")}}

\* the snapshot branches created for release_tag
SnapshotsOf(release_tag) ==
    {n \in SnapshotBranches :
        \E s \in Shas : n.id = generate_snapshot_id(release_tag, s)}

\* A draft is created for a release that has a snapshot, and a release is
\* published from a snapshot created for it.
NextRelease ==
    \/ \E p \in ReleasePlans : EditPlan(p)
    \/ \E t \in Tags, s \in Shas :
            /\ derive_state(t).value = STATE_PLANNED
            /\ CreateSnapshot(t, s, FALSE, "none", {})
    \/ \E n \in SnapshotNames \cup ReviewNames : DeleteBranch(n)
    \/ \E t \in Tags : SnapshotsOf(t) # {} /\ CreateDraft(t)
    \/ \E t \in Tags :
         \E n \in SnapshotsOf(t) :
            /\ t \in drafts
            /\ PublishRelease(t, n, TRUE)
    \/ \E t \in Tags, n \in SnapshotNames : CleanupBranches(t, n)

SpecRelease == Init /\ [][NextRelease]_vars

(***************************************************************************)
(* SpecCreate and SpecRace: create_snapshot step by step.  ret keeps the   *)
(* runs: where each one stands, its local variables and its result.  In    *)
(* SpecCreate a run starts when no other is in progress; in SpecRace the   *)
(* steps of two runs interleave.                                           *)
(***************************************************************************)
Runs == {"run1", "run2"}

Performed(op, branch) == [op |-> op, branch |-> branch]

\* a run that was not started
NoRun ==
    [pc |-> "idle", release_tag |-> <<>>, src_commit_sha |-> "",
     dry_run |-> FALSE, success |-> FALSE, errors |-> <<>>,
     warnings |-> <<>>, snapshot_branch |-> PyNone,
     release_review_branch |-> PyNone, state |-> "", performed |-> <<>>]

RunsOf(run) == [op |-> "create_snapshot", arg |-> <<>>, out |-> <<>>,
                run |-> run]

\* the run r moves to the record next; nothing but branches can change
Step(r, next) ==
    /\ ret' = RunsOf([ret.run EXCEPT ![r] = next])
    /\ UNCHANGED <<tags, tagfiles, drafts, plan, issues, manager>>

\* the branch as the run r pushed it: head identifies the commit of the run
Pushed(r, name) ==
    [sha |-> ret.run[r].src_commit_sha,
     metadata |-> GenerateMetadata(_read_release_plan, <<>>), head |-> r]

\* create_snapshot(release_plan, config) is called: result and the two
\* branch names are initialised
StartRun(r, release_tag, sha, dry_run) ==
    /\ ret.run[r].pc = "idle"
    /\ Step(r, [NoRun EXCEPT !.pc = "validate", !.release_tag = release_tag,
                             !.src_commit_sha = sha, !.dry_run = dry_run])
    /\ UNCHANGED branches

\* Mutant: a release that has a snapshot passes the check.
ValidateStep_NoSnapshotCheck(r) ==
    LET run == ret.run[r]
        state == derive_state(run.release_tag).value
        errors == validate_preconditions(run.release_tag)
    IN
    /\ run.pc = "validate"
    /\ UNCHANGED branches
    /\ IF state = AttributeError
       THEN Step(r, [run EXCEPT !.pc = "cleanup", !.state = state,
                                !.errors = <<"Unexpected error">>])
       ELSE IF errors # <<>> /\ state # STATE_SNAPSHOT_ACTIVE
       THEN Step(r, [run EXCEPT !.pc = "done", !.state = state,
                                !.errors = errors])
       ELSE Step(r, [run EXCEPT !.pc = "prepare", !.state = state])

\* Step 1: validate_preconditions; an exception of derive_state is caught by
\* `except Exception`.  state keeps what derive_state returned.
ValidateStep(r) ==
    LET run == ret.run[r]
        state == derive_state(run.release_tag).value
        errors == validate_preconditions(run.release_tag)
    IN
    /\ run.pc = "validate"
    /\ UNCHANGED branches
    /\ IF state = AttributeError
       THEN Step(r, [run EXCEPT !.pc = "cleanup", !.state = state,
                                !.errors = <<"Unexpected error">>])
       ELSE IF errors # <<>>
       THEN Step(r, [run EXCEPT !.pc = "done", !.state = state,
                                !.errors = errors])
       ELSE Step(r, [run EXCEPT !.pc = "prepare", !.state = state])

\* Steps 2 to 5: base commit, snapshot id, API versions, branch names; a dry
\* run returns here
PrepareStep(r) ==
    \E api_versions \in {calculate_versions_for_plan(_read_release_plan)} :
    LET run == ret.run[r]
        snapshot_id == generate_snapshot_id(run.release_tag,
                                            run.src_commit_sha)
        calculated == [run EXCEPT
            !.performed = @ \o <<Performed("calculate_versions", PyNone)>>]
        named == [calculated EXCEPT
            !.snapshot_branch =
                BranchName(SNAPSHOT_BRANCH_PREFIX, snapshot_id),
            !.release_review_branch =
                BranchName(RELEASE_REVIEW_BRANCH_PREFIX, snapshot_id)]
    IN
    /\ run.pc = "prepare"
    /\ UNCHANGED branches
    /\ IF api_versions.raised # "None"
       THEN Step(r, [calculated EXCEPT
                        !.pc = "cleanup",
                        !.errors = @ \o <<"Unexpected error">>])
       ELSE IF run.dry_run
       THEN Step(r, [named EXCEPT !.pc = "done", !.success = TRUE,
                                  !.warnings = @ \o <<"Dry run">>])
       ELSE Step(r, [named EXCEPT !.pc = "snapshot"])

\* Steps 6 to 11: clone, create the snapshot branch, transform, write the
\* metadata, commit, push.  failure names what fails; a push to a name that
\* exists on the remote is rejected.
SnapshotStep(r, failure) ==
    LET run == ret.run[r]
        name == run.snapshot_branch
        cloned == <<Performed("clone", PyNone)>>
        created == cloned \o <<Performed("create_branch", name)>>
        pushing == created \o <<Performed("push", name)>>
        rejected == failure = "none" /\ name \in DOMAIN branches
    IN
    /\ run.pc = "snapshot"
    /\ CASE failure = "clone" ->
              /\ Step(r, [run EXCEPT !.pc = "cleanup",
                            !.performed = @ \o cloned,
                            !.errors = @ \o <<"Git operation failed">>])
              /\ UNCHANGED branches
         [] failure = "transform" ->
              /\ Step(r, [run EXCEPT !.pc = "cleanup",
                            !.performed = @ \o created,
                            !.errors = @ \o <<"Transformations failed">>])
              /\ UNCHANGED branches
         [] failure = "push" \/ rejected ->
              /\ Step(r, [run EXCEPT !.pc = "cleanup",
                            !.performed = @ \o pushing,
                            !.errors = @ \o <<"Git operation failed">>])
              /\ UNCHANGED branches
         [] OTHER ->
              /\ Step(r, [run EXCEPT !.pc = "review",
                            !.performed = @ \o pushing])
              /\ branches' = (name :> Pushed(r, name)) @@ branches

\* Steps 12 and 13: create the release-review branch, update README and
\* CHANGELOG, push
ReviewStep(r, ok) ==
    LET run == ret.run[r]
        name == run.release_review_branch
        pushing == <<Performed("create_branch", name),
                     Performed("push", name)>>
    IN
    /\ run.pc = "review"
    /\ IF ok /\ name \notin DOMAIN branches
       THEN /\ Step(r, [run EXCEPT !.pc = "pr", !.performed = @ \o pushing])
            /\ branches' = (name :> Pushed(r, name)) @@ branches
       ELSE /\ Step(r, [run EXCEPT !.pc = "cleanup",
                          !.performed = @ \o pushing,
                          !.errors = @ \o <<"Git operation failed">>])
            /\ UNCHANGED branches

\* Step 14: _create_release_pr
PrStep(r, ok) ==
    LET run == ret.run[r]
        creating == <<Performed("create_pr", run.release_review_branch)>>
    IN
    /\ run.pc = "pr"
    /\ UNCHANGED branches
    /\ IF ok
       THEN Step(r, [run EXCEPT !.pc = "done", !.success = TRUE,
                                !.performed = @ \o creating])
       ELSE Step(r, [run EXCEPT !.pc = "cleanup",
                                !.performed = @ \o creating,
                                !.errors = @ \o <<"Git operation failed">>])

\* _cleanup_branches: the clone; when it fails nothing is deleted and
\* nothing is reported
CleanupCloneStep(r, ok) ==
    LET run == ret.run[r] IN
    /\ run.pc = "cleanup"
    /\ UNCHANGED branches
    /\ Step(r, [run EXCEPT
                  !.pc = IF ok THEN "cleanup_review" ELSE "done",
                  !.performed = @ \o <<Performed("cleanup_clone", PyNone)>>])

\* `if name: try: delete_remote_branch(name) except GitOperationsError`: the
\* branch of that name is deleted, whoever pushed it; a name that the remote
\* does not have is not an error; an error becomes a warning
DeleteRemote(r, name, ok, next) ==
    LET run == ret.run[r]
        deleting == <<Performed("delete_remote_branch", name)>>
    IN
    IF name = PyNone
    THEN Step(r, [run EXCEPT !.pc = next]) /\ UNCHANGED branches
    ELSE IF ~ok
    THEN /\ Step(r, [run EXCEPT !.pc = next, !.performed = @ \o deleting,
                       !.warnings = @ \o <<<<"Failed to delete", name>>>>])
         /\ UNCHANGED branches
    ELSE /\ Step(r, [run EXCEPT !.pc = next, !.performed = @ \o deleting])
         /\ branches' = Without({name})

CleanupReviewStep(r, ok) ==
    /\ ret.run[r].pc = "cleanup_review"
    /\ DeleteRemote(r, ret.run[r].release_review_branch, ok,
                    "cleanup_snapshot")

CleanupSnapshotStep(r, ok) ==
    /\ ret.run[r].pc = "cleanup_snapshot"
    /\ DeleteRemote(r, ret.run[r].snapshot_branch, ok, "done")

RunStep(r) ==
    \/ \E t \in Tags, s \in Shas, d \in BOOLEAN : StartRun(r, t, s, d)
    \/ ValidateStep(r)
    \/ PrepareStep(r)
    \/ \E f \in {"none", "clone", "transform", "push"} : SnapshotStep(r, f)
    \/ \E ok \in BOOLEAN : ReviewStep(r, ok)
    \/ \E ok \in BOOLEAN : PrStep(r, ok)
    \/ \E ok \in BOOLEAN : CleanupCloneStep(r, ok)
    \/ \E ok \in BOOLEAN : CleanupReviewStep(r, ok)
    \/ \E ok \in BOOLEAN : CleanupSnapshotStep(r, ok)

\* no other run is between its call and its return
Alone(r) == \A o \in Runs \ {r} : ret.run[o].pc \in {"idle", "done"}

\* repositories in every state of a release before the runs start
InitCreate ==
    /\ tags \in SUBSET {T1}
    /\ tagfiles = [t \in tags |-> NoFile]
    /\ drafts \in SUBSET {T1}
    /\ plan \in LifecyclePlans
    /\ \E names \in SUBSET {BranchName(SNAPSHOT_BRANCH_PREFIX,
                               generate_snapshot_id(T1, ShaNames[1]))} :
          branches = [n \in names |-> Branch(n, NoFile)]
    /\ issues = {}
    /\ manager = NewManager
    /\ ret = RunsOf([r \in Runs |-> NoRun])

NextCreate == \E r \in Runs : Alone(r) /\ RunStep(r)

SpecCreate == InitCreate /\ [][NextCreate]_vars

NextRace == \E r \in Runs : RunStep(r)

SpecRace == InitCreate /\ [][NextRace]_vars

(***************************************************************************)
(* SpecPublish: publish_release call by call, on repositories with and     *)
(* without a draft and with every release-metadata.yaml on the snapshot    *)
(* branch.                                                                 *)
(***************************************************************************)
Call(op, ok) == [op |-> op, ok |-> ok]

\* the metadata with repository.release_date set
WithReleaseDate(metadata) ==
    PyDict(("repository" :>
                PyDict(("release_date" :> PyStr(<<"now">>))
                       @@ Get(metadata, "repository", EmptyDict).d))
           @@ metadata.d)

\* finalize_metadata(snapshot_branch, release_tag): the commit sha or None,
\* or the TypeError of `"repository" not in metadata` and of the item
\* assignments on a value that is not a mapping; written is the content
\* committed to the branch, calls the API calls made.  commit_ok: update_file
\* succeeds.
finalize_metadata(snapshot_branch, commit_ok) ==
    LET content == get_file_content(RELEASE_METADATA_FILE, snapshot_branch)
        metadata == content.parsed
        reading == <<Call("get_file_content", TRUE)>>
    IN IF NotContent(content) \/ metadata = YAMLError
       THEN [raised |-> "None", value |-> PyNone, written |-> NoFile,
             calls |-> reading]
       ELSE IF \/ ~IsDict(metadata)
               \/ ~IsDict(Get(metadata, "repository", EmptyDict))
       THEN [raised |-> TypeError, value |-> PyNone, written |-> NoFile,
             calls |-> reading]
       ELSE IF ~commit_ok
       THEN [raised |-> "None", value |-> PyNone, written |-> NoFile,
             calls |-> reading \o <<Call("update_file", FALSE)>>]
       ELSE [raised |-> "None", value |-> PyStr(<<"commit">>),
             written |-> Text(WithReleaseDate(metadata)),
             calls |-> reading \o <<Call("update_file", TRUE)>>]

PublishResult(success, release_id, calls) ==
    [raised |-> "None", success |-> success, release_id |-> release_id,
     calls |-> calls]

PublishReturns(release_tag, snapshot_branch, out) ==
    ret' = [op |-> "publish_release", arg |-> release_tag,
            branch |-> snapshot_branch, out |-> out]

\* Mutant: the release is updated whatever finalize_metadata returned.
PublishReleaseCall_NoCommitCheck(release_tag, snapshot_branch, prerelease, release_id, commit_ok, publish_ok, latest_ok) ==
    \E fin \in {finalize_metadata(snapshot_branch, commit_ok)} :
    LET finding == <<[op |-> "get_draft_release",
                      ok |-> release_tag \in drafts,
                      prerelease |-> prerelease]>>
        identifying == finding
                       \o <<Call("get_release_id", Truthy(release_id))>>
        finalizing == identifying \o fin.calls
        publishing == finalizing \o <<Call("update_release", publish_ok)>>
        latest == IF prerelease THEN <<>>
                  ELSE <<Call("update_release_make_latest", latest_ok)>>
    IN
    /\ UNCHANGED <<plan, issues, manager>>
    /\ IF release_tag \notin drafts
       THEN /\ PublishReturns(release_tag, snapshot_branch,
                           PublishResult(FALSE, PyNone, finding))
            /\ UNCHANGED <<tags, tagfiles, drafts, branches>>
       ELSE IF ~Truthy(release_id)
       THEN /\ PublishReturns(release_tag, snapshot_branch,
                         PublishResult(FALSE, PyNone, identifying))
            /\ UNCHANGED <<tags, tagfiles, drafts, branches>>
       ELSE IF fin.raised # "None"
       THEN /\ PublishReturns(release_tag, snapshot_branch,
                         [raised |-> fin.raised, success |-> FALSE,
                          release_id |-> PyNone, calls |-> finalizing])
            /\ UNCHANGED <<tags, tagfiles, drafts, branches>>
       ELSE
         /\ branches' =
              IF fin.written = NoFile THEN branches
              ELSE [branches EXCEPT
                      ![snapshot_branch].metadata = fin.written]
         /\ IF ~publish_ok
            THEN /\ PublishReturns(release_tag, snapshot_branch,
                              PublishResult(FALSE, PyNone, publishing))
                 /\ UNCHANGED <<tags, tagfiles, drafts>>
            ELSE /\ PublishReturns(release_tag, snapshot_branch,
                              PublishResult(TRUE, release_id,
                                            publishing \o latest))
                 /\ drafts' = drafts \ {release_tag}
                 /\ tags' = tags \cup {release_tag}
                 /\ tagfiles' = IF release_tag \in tags THEN tagfiles
                                ELSE (release_tag :> fin.written) @@ tagfiles

\* publish_release(release_tag, snapshot_branch).  prerelease is the flag of
\* the draft and release_id what get_release_id returns for it; commit_ok,
\* publish_ok and latest_ok: update_file, update_release(draft=False) and
\* update_release(make_latest) succeed.  Publishing the draft creates the
\* tag on the head of the snapshot branch.
PublishReleaseCall(release_tag, snapshot_branch, prerelease, release_id, commit_ok, publish_ok, latest_ok) ==
    \E fin \in {finalize_metadata(snapshot_branch, commit_ok)} :
    LET finding == <<[op |-> "get_draft_release",
                      ok |-> release_tag \in drafts,
                      prerelease |-> prerelease]>>
        identifying == finding
                       \o <<Call("get_release_id", Truthy(release_id))>>
        finalizing == identifying \o fin.calls
        publishing == finalizing \o <<Call("update_release", publish_ok)>>
        latest == IF prerelease THEN <<>>
                  ELSE <<Call("update_release_make_latest", latest_ok)>>
    IN
    /\ UNCHANGED <<plan, issues, manager>>
    /\ IF release_tag \notin drafts
       THEN /\ PublishReturns(release_tag, snapshot_branch,
                           PublishResult(FALSE, PyNone, finding))
            /\ UNCHANGED <<tags, tagfiles, drafts, branches>>
       ELSE IF ~Truthy(release_id)
       THEN /\ PublishReturns(release_tag, snapshot_branch,
                         PublishResult(FALSE, PyNone, identifying))
            /\ UNCHANGED <<tags, tagfiles, drafts, branches>>
       ELSE IF fin.raised # "None"
       THEN /\ PublishReturns(release_tag, snapshot_branch,
                         [raised |-> fin.raised, success |-> FALSE,
                          release_id |-> PyNone, calls |-> finalizing])
            /\ UNCHANGED <<tags, tagfiles, drafts, branches>>
       ELSE IF fin.value = PyNone
       THEN /\ PublishReturns(release_tag, snapshot_branch,
                         PublishResult(FALSE, PyNone, finalizing))
            /\ UNCHANGED <<tags, tagfiles, drafts, branches>>
       ELSE
         /\ branches' = [branches EXCEPT
                           ![snapshot_branch].metadata = fin.written]
         /\ IF ~publish_ok
            THEN /\ PublishReturns(release_tag, snapshot_branch,
                              PublishResult(FALSE, PyNone, publishing))
                 /\ UNCHANGED <<tags, tagfiles, drafts>>
            ELSE /\ PublishReturns(release_tag, snapshot_branch,
                              PublishResult(TRUE, release_id,
                                            publishing \o latest))
                 /\ drafts' = drafts \ {release_tag}
                 /\ tags' = tags \cup {release_tag}
                 /\ tagfiles' = IF release_tag \in tags THEN tagfiles
                                ELSE (release_tag :> fin.written) @@ tagfiles

\* what get_release_id returns: None when the listing fails
ReleaseIds == {PyNone, PyInt(12345)}

\* release-metadata.yaml documents on the branch a release is published from
PublishDocs == MetadataDocs \cup {EmptyText, Text(EmptyDict)}

InitPublish ==
    /\ tags = {}
    /\ tagfiles = <<>>
    /\ drafts \in SUBSET Tags
    /\ plan = RcPlan(T1)
    /\ \E names \in SUBSET SnapshotNames :
         /\ Cardinality(names) <= 1
         /\ \E m \in [names -> PublishDocs] :
               branches = [n \in names |-> Branch(n, m[n])]
    /\ issues = {}
    /\ manager = NewManager
    /\ ret = Idle

NextPublish ==
    \E t \in Tags, n \in SnapshotNames, id \in ReleaseIds :
      \E prerelease, commit_ok, publish_ok, latest_ok \in BOOLEAN :
        PublishReleaseCall(t, n, prerelease, id, commit_ok, publish_ok,
                           latest_ok)

SpecPublish == InitPublish /\ [][NextPublish]_vars

(***************************************************************************)
(* SpecRetry: GitHubClient.retry_on_not_found, one loop iteration per      *)
(* step.  ret keeps the call: its arguments, the loop variable, the calls  *)
(* of fn and the sleeps made so far, and the outcome.                      *)
(***************************************************************************)
MaxRetries == 3     \* largest max_retries

GitHubClientError == "GitHubClientError"
ValueError == "ValueError"

\* str.lower() on the words of the error messages
lower(msg) ==
    [i \in DOMAIN msg |->
        CASE msg[i] = "Not" -> "not"
          [] msg[i] = "Found" -> "found"
          [] msg[i] = "HTTP" -> "http"
          [] OTHER -> msg[i]]

\* "404" in error_msg or "not found" in error_msg
IsNotFoundMessage(error_msg) ==
    \/ \E i \in DOMAIN error_msg : error_msg[i] = "404"
    \/ \E i \in DOMAIN error_msg :
          /\ i + 1 \in DOMAIN error_msg
          /\ error_msg[i] = "not"
          /\ error_msg[i + 1] = "found"

\* what a call of fn does: it returns, or raises exc with a message
FnReturns == [exc |-> "None", msg |-> <<>>]
FnRaises(exc, msg) == [exc |-> exc, msg |-> msg]

FnOutcomes ==
    {FnReturns,
     FnRaises(GitHubClientError, <<"HTTP", "404">>),
     FnRaises(GitHubClientError, <<"Not", "Found">>),
     FnRaises(GitHubClientError, <<"HTTP", "500">>),
     FnRaises(ValueError, <<"not", "found">>)}

Delays == {1, 2}

RetryCall(max_retries, delay, fn) ==
    [op |-> "retry_on_not_found",
     arg |-> [max_retries |-> max_retries, delay |-> delay, fn |-> fn],
     attempt |-> 0, calls |-> 0, sleeps |-> <<>>,
     out |-> [raised |-> "calling"]]

\* every call: fn is given by what its first max_retries calls do
InitRetry ==
    /\ tags = {}
    /\ tagfiles = <<>>
    /\ branches = <<>>
    /\ drafts = {}
    /\ plan = NoFile
    /\ issues = {}
    /\ manager = NewManager
    /\ \E max_retries \in 0..MaxRetries, delay \in Delays :
         \E fn \in [1..max_retries -> FnOutcomes] :
            ret = RetryCall(max_retries, delay, fn)

Retrying == ret.op = "retry_on_not_found" /\ ret.out.raised = "calling"

\* Mutant: every GitHubClientError is retried.
AttemptStep_AnyError ==
    LET max_retries == ret.arg.max_retries
        attempt == ret.attempt
        outcome == ret.arg.fn[attempt + 1]
        called == [ret EXCEPT !.calls = @ + 1]
    IN
    /\ Retrying
    /\ attempt < max_retries
    /\ UNCHANGED <<artifacts, manager>>
    /\ IF outcome.exc = "None"
       THEN ret' = [called EXCEPT !.out = Returns(PyInt(attempt + 1))]
       ELSE IF /\ outcome.exc = GitHubClientError
               /\ attempt < max_retries - 1
       THEN ret' = [called EXCEPT
                      !.sleeps = Append(@, ret.arg.delay * (attempt + 1)),
                      !.attempt = @ + 1]
       ELSE ret' = [called EXCEPT
                      !.out = [raised |-> outcome.exc,
                               value |-> outcome.msg]]

\* One iteration of `for attempt in range(max_retries)`: fn is called; its
\* result is returned (here: the number of the call that produced it); a
\* GitHubClientError that is a not-found error on an attempt that is not the
\* last is followed by the sleep and the next iteration; any other exception
\* leaves the function.
AttemptStep ==
    LET max_retries == ret.arg.max_retries
        attempt == ret.attempt
        outcome == ret.arg.fn[attempt + 1]
        called == [ret EXCEPT !.calls = @ + 1]
    IN
    /\ Retrying
    /\ attempt < max_retries
    /\ UNCHANGED <<artifacts, manager>>
    /\ IF outcome.exc = "None"
       THEN ret' = [called EXCEPT !.out = Returns(PyInt(attempt + 1))]
       ELSE IF /\ outcome.exc = GitHubClientError
               /\ IsNotFoundMessage(lower(outcome.msg))
               /\ attempt < max_retries - 1
       THEN ret' = [called EXCEPT
                      !.sleeps = Append(@, ret.arg.delay * (attempt + 1)),
                      !.attempt = @ + 1]
       ELSE ret' = [called EXCEPT
                      !.out = [raised |-> outcome.exc,
                               value |-> outcome.msg]]

\* range(max_retries) is exhausted: the function falls off its end and
\* returns None
LoopExit ==
    /\ Retrying
    /\ ret.attempt >= ret.arg.max_retries
    /\ ret' = [ret EXCEPT !.out = Returns(PyNone)]
    /\ UNCHANGED <<artifacts, manager>>

NextRetry == AttemptStep \/ LoopExit

\* the loop runs on until the function returns or raises
SpecRetry == InitRetry /\ [][NextRetry]_vars /\ WF_vars(NextRetry)

(***************************************************************************)
(* SpecSync: sync_release_issue call by call, while maintainers edit the   *)
(* release plan.  An issue carries the release-issue label; marker: the    *)
(* workflow marker is in its body; state: the release-state label.         *)
(***************************************************************************)
MaxOpen == 3        \* number of open release issues in SpecSync

\* TYPE_DISPLAY_NAMES.get(release_type, release_type)
type_display(release_type) ==
    CASE release_type = PyStr(<<"none">>) -> <<>>
      [] release_type = PyStr(<<"pre", "release", "rc">>) -> <<"RC">>
      [] OTHER -> IF Truthy(release_type) THEN release_type.s ELSE <<>>

\* IssueManager.generate_title: f"Release {release_tag}", then the type
\* in parentheses when it has a display name
generate_title(release_tag, release_type) ==
    <<"Release">> \o release_tag.s \o type_display(release_type)

\* find_workflow_owned_issue(release_tag): the first issue of the listing
\* (newest first) with the marker in its body and the tag in its title
find_workflow_owned_issue(release_tag) ==
    LET owned == {i \in issues :
                    i.marker /\ TagInTitle(release_tag.s, i.title)}
    IN IF owned = {} THEN PyNone
       ELSE CHOOSE i \in owned : \A j \in owned : j.number <= i.number

\* _needs_update(issue, state, release_plan): the state label or the title
\* differs from what the state and the plan give
_needs_update(issue, state, expected_title) ==
    issue.state # state \/ issue.title # expected_title

SyncResult(action, reason, issue, calls) ==
    [raised |-> "None", action |-> action, reason |-> reason,
     issue |-> issue, calls |-> calls]

Synced(out) == ret' = [op |-> "sync_release_issue", arg |-> <<>>, out |-> out]

\* the number GitHub gives to the next issue
NextNumber ==
    LET numbers == {0} \cup {i.number : i \in issues}
    IN 1 + CHOOSE n \in numbers : \A m \in numbers : m <= n

\* sync_release_issue(release_plan), the plan being the one on main.
\* post_ok: the update and refetch of a freshly created issue succeed within
\* the retries.  The first call of a manager makes sure the labels exist.
SyncReleaseIssue(post_ok) ==
    LET release_plan == _read_release_plan
        repository == Get(release_plan, "repository", EmptyDict)
        release_tag == Get(repository, "target_release_tag", EmptyStr)
        release_type == Get(repository, "target_release_type", EmptyStr)
        labelling == IF manager._labels_ensured THEN <<>>
                     ELSE <<"ensure_labels_exist">>
        deriving == labelling \o <<"derive_state", "search_issues">>
    IN
    /\ UNCHANGED <<tags, tagfiles, branches, drafts, plan>>
    /\ IF ~Truthy(release_tag)
       THEN /\ Synced(SyncResult("none", "missing_release_tag", PyNone, <<>>))
            /\ UNCHANGED <<issues, manager>>
       ELSE
         \E state \in {derive_state(release_tag.s).value},
            issue \in {find_workflow_owned_issue(release_tag)},
            title \in {generate_title(release_tag, release_type)} :
           /\ manager' = [manager EXCEPT !._labels_ensured = TRUE]
           /\ IF issue = PyNone
              THEN IF state = STATE_PLANNED
                   THEN LET new_issue == [number |-> NextNumber,
                                          marker |-> TRUE, title |-> title,
                                          state |-> STATE_PLANNED]
                            creating == deriving \o <<"create_issue">>
                        IN /\ Cardinality(issues) < MaxOpen
                           /\ issues' = issues \cup {new_issue}
                           /\ IF post_ok
                              THEN Synced(SyncResult("created", "",
                                                     new_issue, creating))
                              ELSE Synced([raised |-> GitHubClientError,
                                           calls |-> creating])
                   ELSE /\ Synced(SyncResult("none", "no_planned_release",
                                             PyNone, deriving))
                        /\ UNCHANGED issues
              ELSE IF _needs_update(issue, state, title)
              THEN LET updated == [issue EXCEPT !.state = state,
                                                !.title = title]
                   IN /\ issues' = (issues \ {issue}) \cup {updated}
                      /\ Synced(SyncResult("updated", "", updated,
                                           deriving \o <<"update_issue">>))
              ELSE /\ Synced(SyncResult("none", "up_to_date", PyNone,
                                        deriving))
                   /\ UNCHANGED issues

\* release plans handed to sync_release_issue: with a target tag and with or
\* without a type, and without a target tag
SyncPlans ==
    SnapshotPlans
    \cup {Text(PyDict("repository" :> EmptyDict)),
          Text(PyDict("repository"
                        :> PyDict("target_release_tag" :> EmptyStr)))}

InitSync ==
    /\ tags \in SUBSET {T1}
    /\ tagfiles = [t \in tags |-> NoFile]
    /\ drafts = {}
    /\ plan \in SyncPlans
    /\ \E names \in SUBSET {BranchName(SNAPSHOT_BRANCH_PREFIX,
                               generate_snapshot_id(T2, ShaNames[1]))} :
          branches = [n \in names |-> Branch(n, NoFile)]
    /\ issues = {}
    /\ manager = [gh |-> "GitHubClient", _labels_ensured |-> FALSE]
    /\ ret = Idle

NextSync ==
    \/ \E post_ok \in BOOLEAN : SyncReleaseIssue(post_ok)
    \/ \E p \in SyncPlans : EditPlan(p)

SpecSync == InitSync /\ [][NextSync]_vars

(***************************************************************************)
(* SpecOverlap: derive_state query by query, while a release is published  *)
(* and cleaned up.  ret keeps the call: the query it is at, and held, the  *)
(* states the release has had since the call began.                        *)
(***************************************************************************)
DeriveCall(release_tag, pc, held, out) ==
    [op |-> "derive_state", arg |-> release_tag, pc |-> pc, held |-> held,
     out |-> out]

Deriving(pc) == ret.op = "derive_state" /\ ret.pc = pc

\* derive_state(release_tag) is called
StartDerive(release_tag) ==
    /\ ret.op = "none"
    /\ ret' = DeriveCall(release_tag, "tag_exists",
                         {derive_state(release_tag).value}, <<>>)
    /\ UNCHANGED <<artifacts, manager>>

\* Step 1: tag_exists
TagExistsStep ==
    /\ Deriving("tag_exists")
    /\ ret' = IF tag_exists(ret.arg)
              THEN [ret EXCEPT !.pc = "done", !.out = STATE_PUBLISHED]
              ELSE [ret EXCEPT !.pc = "list_branches"]
    /\ UNCHANGED <<artifacts, manager>>

\* Step 2: list_branches
ListBranchesStep ==
    /\ Deriving("list_branches")
    /\ ret' = IF list_branches(ret.arg) # <<>>
              THEN [ret EXCEPT !.pc = "draft_release_exists"]
              ELSE [ret EXCEPT !.pc = "_read_release_plan"]
    /\ UNCHANGED <<artifacts, manager>>

\* Step 3: draft_release_exists
DraftReleaseExistsStep ==
    /\ Deriving("draft_release_exists")
    /\ ret' = [ret EXCEPT !.pc = "done",
                          !.out = IF draft_release_exists(ret.arg)
                                  THEN STATE_DRAFT_READY
                                  ELSE STATE_SNAPSHOT_ACTIVE]
    /\ UNCHANGED <<artifacts, manager>>

\* Step 4: the release plan
ReadPlanStep ==
    /\ Deriving("_read_release_plan")
    /\ ret' = [ret EXCEPT !.pc = "done",
                          !.out = PlanState(_read_release_plan, ret.arg)]
    /\ UNCHANGED <<artifacts, manager>>

\* the call in progress, having seen the release in the state it has after
\* this step
Holding ==
    \E call \in {ret} :
      ret' = IF call.op = "derive_state" /\ call.pc # "done"
             THEN [call EXCEPT
                     !.held = @ \cup {derive_state(call.arg).value'}]
             ELSE call

\* publish_release, Step 3: the draft release of release_tag is published,
\* which creates the tag
PublishDraft(release_tag) ==
    /\ release_tag \in drafts
    /\ release_tag \notin tags
    /\ SnapshotsOf(release_tag) # {}
    /\ drafts' = drafts \ {release_tag}
    /\ tags' = tags \cup {release_tag}
    /\ tagfiles' = (release_tag :> NoFile) @@ tagfiles
    /\ UNCHANGED <<branches, plan, issues, manager>>
    /\ Holding

\* cleanup_branches after the publication: the snapshot branch is deleted
\* (and the release-review branch renamed)
DeleteSnapshotBranch(release_tag) ==
    /\ release_tag \in tags
    /\ SnapshotsOf(release_tag) # {}
    /\ branches' = Without(SnapshotsOf(release_tag))
    /\ UNCHANGED <<tags, tagfiles, drafts, plan, issues, manager>>
    /\ Holding

\* releases with a snapshot and with or without a draft, under plans that
\* target them or not
InitOverlap ==
    /\ tags = {}
    /\ tagfiles = <<>>
    /\ drafts \in SUBSET Tags
    /\ plan \in {RcPlan(T1), NonePlan(T1), RcPlan(T2), NoFile}
    /\ \E names \in SUBSET SnapshotNames :
          /\ names # {}
          /\ Cardinality(names) <= MaxBranches
          /\ branches = [n \in names |-> Branch(n, NoFile)]
    /\ issues = {}
    /\ manager = NewManager
    /\ ret = Idle

NextOverlap ==
    \/ \E t \in Tags : StartDerive(t)
    \/ TagExistsStep
    \/ ListBranchesStep
    \/ DraftReleaseExistsStep
    \/ ReadPlanStep
    \/ \E t \in Tags : PublishDraft(t)
    \/ \E t \in Tags : DeleteSnapshotBranch(t)

SpecOverlap == InitOverlap /\ [][NextOverlap]_vars

(***************************************************************************)
(* Claims on derive_state (SpecQuery)                                      *)
(***************************************************************************)
DeriveReturned == ret.op = "derive_state"

\* C1. Tag dominance: whenever a tag named release_tag exists,
\* derive_state(release_tag) returned Published, whatever snapshot branches,
\* draft releases and release-plan content exist besides.
C1_TagDominance ==
    (DeriveReturned /\ ret.arg \in tags) => ret.out.value = STATE_PUBLISHED

\* A call on a tagged release that also has a snapshot branch, a draft
\* release and a plan saying something else.
C1_Witness ==
    /\ DeriveReturned /\ ret.arg \in tags /\ ret.arg \in drafts
    /\ SnapshotBranchMatches(ret.arg)
    /\ plan = InvalidText
    /\ ret.out.value = STATE_PUBLISHED

\* C2. With no tag and at least one branch matching
\* release-snapshot/{release_tag}-*, derive_state returned DraftReady when a
\* draft release exists for release_tag and SnapshotActive otherwise, whatever
\* the release-plan document is.
C2_SnapshotStates ==
    (DeriveReturned /\ ret.arg \notin tags /\ SnapshotBranchMatches(ret.arg))
    => ret.out.value = (IF ret.arg \in drafts THEN STATE_DRAFT_READY
                        ELSE STATE_SNAPSHOT_ACTIVE)

\* A snapshot branch next to a plan that is not even a mapping.
C2_Witness ==
    /\ DeriveReturned /\ ret.arg \notin tags /\ SnapshotBranchMatches(ret.arg)
    /\ plan = Text(PyList(1))
    /\ ret.arg \in drafts
    /\ ret.out.value = STATE_DRAFT_READY

\* The plan exists, is a mapping, targets release_tag and has a
\* target_release_type that is present and is not "none" in any casing.
PlanTargets(release_tag) ==
    /\ plan # NoFile
    /\ plan.parsed # YAMLError
    /\ IsDict(plan.parsed)
    /\ "repository" \in DOMAIN plan.parsed.d
    /\ IsDict(plan.parsed.d["repository"])
    /\ LET repository == plan.parsed.d["repository"].d IN
         /\ "target_release_tag" \in DOMAIN repository
         /\ repository["target_release_tag"] = PyStr(release_tag)
         /\ "target_release_type" \in DOMAIN repository
         /\ repository["target_release_type"] \notin
              {PyNone, PyStr(<<"none">>), PyStr(<<"None">>),
               PyStr(<<"NONE">>)}

\* C3. With neither the tag nor a snapshot branch, derive_state returned
\* Planned if and only if the plan exists, is a mapping, targets release_tag
\* and has a type that is present and not "none"; in every other case it
\* returned NotPlanned.
C3_PlanFallback ==
    (DeriveReturned /\ ret.arg \notin tags /\ ~SnapshotBranchMatches(ret.arg))
    => ret.out.value = (IF PlanTargets(ret.arg) THEN STATE_PLANNED
                        ELSE STATE_NOT_PLANNED)

(***************************************************************************)
(* Claims on get_current_release_info (SpecQuery)                          *)
(***************************************************************************)
\* the call returned a ReleaseInfoResult (it did not raise)
InfoReturned == ret.op = "get_current_release_info" /\ ret.out.raised = "None"

\* C7. Mutual exclusivity: a returned ReleaseInfoResult is either a success
\* with a state and no config_error, or a failure with a config_error and no
\* state, release_tag, snapshot_branch or source.
C7_MutualExclusivity ==
    InfoReturned =>
        \/ /\ ret.out.success
           /\ ret.out.state \in ReleaseState
           /\ ret.out.config_error = PyNone
        \/ /\ ~ret.out.success
           /\ ret.out.config_error # PyNone
           /\ ret.out.state = "None"
           /\ ret.out.release_tag = PyNone
           /\ ret.out.snapshot_branch = PyNone
           /\ ret.out.source = "None"

\* Both sides occur: an error result next to artifacts that would give a
\* state (here), and success results (C10_Witness).
C7_Witness ==
    /\ InfoReturned /\ ~ret.out.success
    /\ ret.out.config_error # PyNone
    /\ tags # {} /\ DOMAIN branches # {}

\* The repository entry and target_release_tag of a plan that is a mapping
PlanRepository == Get(plan.parsed, "repository", PyNone)

\* The configuration error the four rules give, first failing rule first;
\* emptyRepositoryIsMissing says whether rule 3 also rejects an empty mapping.
RuleError(emptyRepositoryIsMissing) ==
    IF plan = NoFile THEN ConfigurationError("missing_file", "None")
    ELSE IF plan.parsed = YAMLError \/ ~IsDict(plan.parsed)
    THEN ConfigurationError("malformed_yaml", "None")
    ELSE IF \/ "repository" \notin DOMAIN plan.parsed.d
            \/ ~IsDict(PlanRepository)
            \/ (emptyRepositoryIsMissing /\ PlanRepository = EmptyDict)
    THEN ConfigurationError("missing_field", "repository")
    ELSE IF \/ "target_release_tag" \notin DOMAIN PlanRepository.d
            \/ PlanRepository.d["target_release_tag"] \in {PyNone, EmptyStr}
    THEN ConfigurationError("missing_field", "repository.target_release_tag")
    ELSE PyNone

\* C8 as stated. Validation order: missing_file; malformed_yaml for
\* unparseable or non-mapping content; missing_field 'repository' for a
\* missing or non-mapping repository entry; missing_field
\* 'repository.target_release_tag' for a missing or empty tag; a document
\* passing all four rules yields no config_error.
C8_ValidationOrder_Original ==
    InfoReturned => ret.out.config_error = RuleError(FALSE)

\* C8 amended. The same order, where rule 3 gives missing_field 'repository'
\* for a missing, non-mapping or empty repository entry.
C8_ValidationOrder ==
    InfoReturned => ret.out.config_error = RuleError(TRUE)

\* `repository: {}` was validated: the reported field is 'repository'.
C8_Witness ==
    /\ InfoReturned
    /\ plan = Text(PyDict("repository" :> EmptyDict))
    /\ ret.out.config_error = ConfigurationError("missing_field", "repository")

\* C9. A broken release-plan document is never reported as NotPlanned: the
\* call returns the configuration error, and the only query issued is the
\* read of the release-plan file (no tag, branch, draft or issue query).
C9_ValidationGate ==
    (ret.op = "get_current_release_info" /\ RuleError(TRUE) # PyNone)
    => /\ ret.out.raised = "None"
       /\ ret.out.state # STATE_NOT_PLANNED
       /\ ret.out.config_error # PyNone
       /\ ret.out.queries = <<"get_file_content">>

\* A broken plan in a repository where the state logic would have found
\* nothing planned.
C9_Witness ==
    /\ ret.op = "get_current_release_info"
    /\ plan = Text(PyDict("apis" :> PyList(1)))
    /\ tags = {} /\ DOMAIN branches = {}
    /\ ret.out.config_error = ConfigurationError("missing_field", "repository")

\* the plan's target_release_tag, for a plan that passed validation
PlanReleaseTag == PlanRepository.d["target_release_tag"]

\* C10 as stated. The state of a successful get_current_release_info equals
\* derive_state(plan.repository.target_release_tag) on the same artifacts.
C10_StateAgrees_Original ==
    (InfoReturned /\ ret.out.success)
    => ret.out.state = derive_state(PlanReleaseTag.s).value

\* C10 amended. The states agree whenever the reported (effective) release
\* tag is the plan's tag; when a snapshot branch makes the metadata or the
\* branch name give another effective tag, the state is DraftReady iff a
\* draft release exists for that effective tag, SnapshotActive otherwise.
C10_StateAgrees ==
    (InfoReturned /\ ret.out.success)
    => IF ret.out.release_tag = PlanReleaseTag
       THEN ret.out.state = derive_state(PlanReleaseTag.s).value
       ELSE /\ ret.out.snapshot_branch # PyNone
            /\ ret.out.state = (IF ret.out.release_tag.s \in drafts
                                THEN STATE_DRAFT_READY
                                ELSE STATE_SNAPSHOT_ACTIVE)

\* Agreement in the snapshot path, and the other effective tag.
C10_Witness ==
    /\ InfoReturned /\ ret.out.success
    /\ ret.out.snapshot_branch # PyNone
    /\ ret.out.release_tag = PlanReleaseTag
    /\ ret.out.state = STATE_DRAFT_READY

(***************************************************************************)
(* Claims on the lifecycle (Spec)                                          *)
(***************************************************************************)
\* C4. State is a pure function of the observable artifacts: whatever
\* changed and whatever was derived before, the state a long-lived manager
\* returned is the one derived from the artifacts as they are (what a newly
\* constructed manager returns), no call leaves anything behind in the
\* manager, and a second call with no artifact change in between returns
\* what the first returned.
C4_PureFunction ==
    /\ [](DeriveReturned => ret.out.value = derive_state(ret.arg).value)
    /\ [][manager' = NewManager]_vars
    /\ [][(/\ DeriveReturned
           /\ ret'.op = "derive_state" /\ ret'.arg = ret.arg
           /\ artifacts' = artifacts)
          => ret'.out.value = ret.out.value]_vars

\* A derivation after one release was published and the next one got its
\* snapshot: many artifact changes and calls lie before it.
C4_Witness ==
    /\ DeriveReturned
    /\ tags # {} /\ ret.arg \notin tags
    /\ ret.out.value = STATE_SNAPSHOT_ACTIVE

\* C5. Lifecycle ordering, for a plan that targets release_tag with a
\* non-none type and stays as it is: with no tag and no snapshot branch the
\* state is Planned; a snapshot branch appearing makes it SnapshotActive; a
\* draft release appearing then makes it DraftReady; the tag appearing makes
\* it Published; the snapshot branches disappearing (discard) makes it
\* Planned again, from where a new snapshot branch gives SnapshotActive.
C5_Lifecycle ==
    [][\A t \in Tags :
        (PlanTargets(t) /\ plan' = plan) =>
          LET before == derive_state(t).value
              after == derive_state(t).value'
          IN
          /\ (t \notin tags /\ ~SnapshotBranchMatches(t))
                => before = STATE_PLANNED
          /\ (/\ before = STATE_PLANNED
              /\ SnapshotBranchMatches(t)'
              /\ tags' = tags /\ drafts' = drafts /\ t \notin drafts)
                => after = STATE_SNAPSHOT_ACTIVE
          /\ (/\ before = STATE_SNAPSHOT_ACTIVE
              /\ t \in drafts'
              /\ tags' = tags /\ branches' = branches)
                => after = STATE_DRAFT_READY
          /\ (/\ before \in {STATE_SNAPSHOT_ACTIVE, STATE_DRAFT_READY}
              /\ t \in tags')
                => after = STATE_PUBLISHED
          /\ (/\ before \in {STATE_SNAPSHOT_ACTIVE, STATE_DRAFT_READY}
              /\ ~SnapshotBranchMatches(t)'
              /\ tags' = tags)
                => after = STATE_PLANNED
      ]_vars

\* The end of the lifecycle was derived: the release went from Planned
\* through a snapshot and a draft release to its tag.
C5_Witness ==
    /\ DeriveReturned
    /\ PlanTargets(ret.arg)
    /\ ret.arg \in tags
    /\ ~SnapshotBranchMatches(ret.arg)
    /\ ret.out.value = STATE_PUBLISHED

\* C6. Published is terminal: from a state in which the tag release_tag
\* exists, every operation that leaves the tag in place leads to a state
\* derived as Published, and a create_snapshot for that tag fails without
\* creating or deleting a branch.
C6_PublishedTerminal ==
    [][\A t \in Tags :
        t \in tags =>
          /\ t \in tags' => derive_state(t).value' = STATE_PUBLISHED
          /\ (ret'.op = "create_snapshot" /\ ret'.arg = t) =>
               \A s \in Shas, run \in SnapshotRuns :
                 CreateSnapshot(t, s, run[1], run[2], run[3])
                   => /\ ~ret'.out.success
                      /\ ret'.out.errors = <<"already published">>
                      /\ branches' = branches
      ]_vars

\* create_snapshot was refused for a published release whose plan and
\* branches alone would have let it start.
C6_Witness ==
    /\ ret.op = "create_snapshot"
    /\ ret.arg \in tags
    /\ PlanTargets(ret.arg)
    /\ ~SnapshotBranchMatches(ret.arg)
    /\ ~ret.out.success

(***************************************************************************)
(* Claims on malformed release plans (SpecQuery)                           *)
(***************************************************************************)
\* The release-plan document is present and parses, but not to a conforming
\* mapping: a scalar or a list, a repository entry that is null or not a
\* mapping, or a target_release_type that is not a string.
NonConformingPlan ==
    /\ plan # NoFile
    /\ ~plan.empty
    /\ plan.parsed # YAMLError
    /\ \/ ~IsDict(plan.parsed)
       \/ /\ "repository" \in DOMAIN plan.parsed.d
          /\ ~IsDict(plan.parsed.d["repository"])
       \/ /\ "repository" \in DOMAIN plan.parsed.d
          /\ IsDict(plan.parsed.d["repository"])
          /\ "target_release_type" \in DOMAIN plan.parsed.d["repository"].d
          /\ plan.parsed.d["repository"].d["target_release_type"].k # "str"

\* C11. With no tag and no snapshot branch and a release-plan document that
\* is present but not a conforming mapping, derive_state raised nothing and
\* returned NotPlanned.
C11_NeverRaises ==
    (/\ DeriveReturned
     /\ ret.arg \notin tags
     /\ ~SnapshotBranchMatches(ret.arg)
     /\ NonConformingPlan)
    => ret.out.value = STATE_NOT_PLANNED

(***************************************************************************)
(* Claims on the version calculator (SpecVersion)                          *)
(***************************************************************************)
\* a call of op has returned or raised
Done(op) == ret.op = op /\ ret.out.raised # "calling"

\* a call of op has returned
Returned(op) == ret.op = op /\ ret.out.raised = "None"

\* the API entries of the published releases that carry an api_name and an
\* api_version, as <<tag, position>>
RecordedAt ==
    {<<t, i>> \in tags \X (1..2) :
        LET doc == tagfiles[t] IN
        /\ doc # NoFile
        /\ ~doc.empty
        /\ IsDict(doc.parsed)
        /\ "apis" \in DOMAIN doc.parsed.d
        /\ doc.parsed.d["apis"].k = "list"
        /\ i <= doc.parsed.d["apis"].len
        /\ IsDict(doc.parsed.d["apis"].items[i])
        /\ {"api_name", "api_version"}
              \subseteq DOMAIN doc.parsed.d["apis"].items[i].d
        /\ doc.parsed.d["apis"].items[i].d["api_version"].k = "str"}

Recorded(at) == tagfiles[at[1]].parsed.d["apis"].items[at[2]].d

\* the versions recorded for api_name in the published releases
RecordedVersions(api_name) ==
    {Recorded(at)["api_version"].s :
        at \in {r \in RecordedAt :
                    Recorded(r)["api_name"] = PyStr(api_name)}}

\* C12. Public passthrough: a calculate_version call with target_status
\* 'public' returned target_version unchanged, and made no query of the
\* releases or of a file, whatever the api_name, target_version and history.
C12_PublicPassthrough ==
    (Done("calculate_version") /\ ret.arg[3] = <<"public">>)
    => /\ ret.out.raised = "None"
       /\ ret.out.value = ret.arg[2]
       /\ ret.out.queries = <<>>

\* a public version was asked for an API that has a pre-release of that
\* version on record
C12_Witness ==
    /\ Returned("calculate_version")
    /\ ret.arg[3] = <<"public">>
    /\ Extended(ret.arg[2], <<"rc">>, 1) \in RecordedVersions(ret.arg[1])
    /\ ret.out.value = ret.arg[2]

\* C13. A calculate_version call with a non-public target_status returned
\* exactly '{target_version}-{target_status}.{n}', n being 1 when no
\* extension was collected and the greatest collected extension plus one
\* otherwise: n is at least 1 and greater than every collected extension,
\* and a gap below the greatest is not filled.
C13_NextExtension ==
    (Returned("calculate_version") /\ ret.arg[3] # <<"public">>)
    => LET collected ==
              find_existing_extensions(ret.arg[1], ret.arg[2],
                                       ret.arg[3]).value
           n == IF collected = <<>> THEN 1
                ELSE 1 + CHOOSE m \in 1..9 :
                            /\ \E i \in DOMAIN collected : collected[i] = m
                            /\ \A i \in DOMAIN collected : collected[i] <= m
       IN /\ ret.out.value
                = ret.arg[2] \o <<"-">> \o ret.arg[3] \o <<".", str(n)>>
          /\ n >= 1
          /\ \A i \in DOMAIN collected : n > collected[i]

\* extension 2 alone was collected, and 3 was given: the gap at 1 stays
C13_Witness ==
    /\ Returned("calculate_version")
    /\ find_existing_extensions(ret.arg[1], ret.arg[2], ret.arg[3]).value
          = <<2>>
    /\ ret.out.value = Extended(ret.arg[2], ret.arg[3], 3)

\* the version has the form X.Y.Z
IsBase(v) == BaseMatches(v) /\ Len(v) = 5

\* the version has the form X.Y.Z-s.n
IsPreRelease(v) == BaseMatches(v) /\ SuffixMatches(v)

\* the entries of the form X.Y.Z-s.n in the namespace of the target: the
\* same api_name, s = t, and X = A >= 1, or X = A = 0 and Y = B as written
InNamespace(api_name, target_version, target_status) ==
    {at \in RecordedAt :
        LET v == Recorded(at)["api_version"].s IN
        /\ IsPreRelease(v)
        /\ Recorded(at)["api_name"] = PyStr(api_name)
        /\ <<v[7]>> = target_status
        /\ \/ /\ int(v[1]) = int(target_version[1])
              /\ int(v[1]) >= 1
           \/ /\ int(v[1]) = 0
              /\ int(target_version[1]) = 0
              /\ v[3] = target_version[3]}

\* C14. Collision-namespace rule: for a target (api_name, A.B.C, t) the
\* extensions that find_existing_extensions collected are the n of exactly
\* the entries X.Y.Z-s.n of published releases with the target's api_name,
\* s = t, and X = A >= 1, or X = A = 0 and Y = B; an entry of another API,
\* status or major, or of another minor under major 0, contributed nothing.
C14_NamespaceRule ==
    (Returned("find_existing_extensions") /\ IsBase(ret.arg[2]))
    => LET contributing == InNamespace(ret.arg[1], ret.arg[2], ret.arg[3])
           collected == ret.out.value
       IN /\ Len(collected) = Cardinality(contributing)
          /\ {collected[i] : i \in DOMAIN collected}
                = {int(Recorded(at)["api_version"].s[9]) :
                        at \in contributing}

\* 1.2.0-rc.2 on record contributed 2 to the target 1.3.1 rc
C14_Witness ==
    /\ Returned("find_existing_extensions")
    /\ ret.arg[2] = Version("1", "3", "1")
    /\ ret.arg[3] = <<"rc">>
    /\ RecordedVersions(ret.arg[1])
          = {Extended(Version("1", "2", "0"), <<"rc">>, 2)}
    /\ ret.out.value = <<2>>

\* C15 as stated. The URL version of what calculate_version returned for a
\* non-public target differs from the URL version of every version on
\* record for the same api_name in a published release.
C15_CollisionFree ==
    (Returned("calculate_version") /\ ret.arg[3] # <<"public">>)
    => \A v \in RecordedVersions(ret.arg[1]) :
            calculate_url_version(ret.out.value) # calculate_url_version(v)

\* C15, amended. For a non-public target whose target_version has the form
\* MAJOR.MINOR.PATCH, the URL version of what calculate_version returned
\* differs from the URL version of every version on record for the same
\* api_name in a published release.
C15_CollisionFreeNumeric ==
    (/\ Returned("calculate_version")
     /\ ret.arg[3] # <<"public">>
     /\ IsBase(ret.arg[2]))
    => \A v \in RecordedVersions(ret.arg[1]) :
            calculate_url_version(ret.out.value) # calculate_url_version(v)

\* 1.2.0-rc.2 is on record and the target 1.3.1 rc was given 1.3.1-rc.3
C15_Witness ==
    /\ Returned("calculate_version")
    /\ ret.arg[2] = Version("1", "3", "1")
    /\ Extended(Version("1", "2", "0"), <<"rc">>, 2)
          \in RecordedVersions(ret.arg[1])
    /\ ret.out.value = Extended(Version("1", "3", "1"), <<"rc">>, 3)

\* C19. calculate_url_version rendered major.minor.patch[-status.n] as
\* v0.{minor} for major 0 and v{major} for major >= 1, followed by
\* {status}{n} when the suffix is there, and 'wip' and every string that
\* does not parse as vwip, the rendering of no numeric version; and
\* calculate_version gave a 'wip' or unparseable target extension 1, nothing
\* having been collected for it.
C19_UrlRendering ==
    /\ Returned("calculate_url_version")
       => LET v == ret.arg
              url == ret.out.value
          IN IF IsBase(v) \/ IsPreRelease(v)
             THEN /\ SubSeq(url, 1, Len(url) - (Len(v) - 5) \div 2)
                        = IF int(v[1]) = 0 THEN <<"v", "0", ".", v[3]>>
                          ELSE <<"v", str(int(v[1]))>>
                  /\ IsPreRelease(v)
                        => SubSeq(url, Len(url) - 1, Len(url))
                                = <<v[7], v[9]>>
                  /\ url # <<"vwip">>
             ELSE url = <<"vwip">>
    /\ (/\ Returned("calculate_version")
        /\ ret.arg[3] # <<"public">>
        /\ ~IsBase(ret.arg[2]))
       => /\ find_existing_extensions(ret.arg[1], ret.arg[2],
                                      ret.arg[3]).value = <<>>
          /\ ret.out.value
                = ret.arg[2] \o <<"-">> \o ret.arg[3] \o <<".", "1">>

\* 0.3.1-rc.2 was rendered as v0.3rc2
C19_Witness ==
    /\ Returned("calculate_url_version")
    /\ ret.arg = Extended(Version("0", "3", "1"), <<"rc">>, 2)
    /\ ret.out.value = <<"v", "0", ".", "3", "rc", "2">>

\* C17. find_existing_extensions raised nothing whatever the metadata of the
\* published releases is (missing, unparseable, not a mapping, a null or
\* non-list apis entry, entries without a string api_version): such a
\* release contributed nothing, and the extensions of the other releases
\* were all collected.
C17_NeverRaises ==
    Done("find_existing_extensions")
    => /\ ret.out.raised = "None"
       /\ IsBase(ret.arg[2])
            => Len(ret.out.value)
                  = Cardinality(InNamespace(ret.arg[1], ret.arg[2],
                                            ret.arg[3]))

\* the entries of the plan that have a non-empty api_name and a non-empty
\* target_api_version
Versioned(release_plan) ==
    LET apis == release_plan.d["apis"].items IN
    {apis[i].d : i \in {j \in DOMAIN apis :
        /\ "api_name" \in DOMAIN apis[j].d
        /\ apis[j].d["api_name"] # EmptyStr
        /\ "target_api_version" \in DOMAIN apis[j].d
        /\ apis[j].d["target_api_version"] # EmptyStr}}

\* calculate_version for an entry of the plan, the status being 'public'
\* when the entry has none
VersionOf(entry) ==
    calculate_version(entry["api_name"].s, entry["target_api_version"].s,
                      IF "target_api_status" \in DOMAIN entry
                      THEN entry["target_api_status"].s ELSE <<"public">>)

\* C18. calculate_versions_for_plan returned a mapping whose keys are
\* exactly the api_name values of the plan entries with a non-empty api_name
\* and a non-empty target_api_version, each value being what
\* calculate_version gives for such an entry of that name, with status
\* 'public' when the entry has no target_api_status; an entry lacking either
\* field was skipped and caused no error: an error of the call is the error
\* of calculate_version for an entry that has both.
C18_VersionsForPlan ==
    (/\ Done("calculate_versions_for_plan")
     /\ "apis" \in DOMAIN ret.arg.d)
    => LET versioned == Versioned(ret.arg) IN
       IF ret.out.raised = "None"
       THEN /\ DOMAIN ret.out.value = {e["api_name"].s : e \in versioned}
            /\ \A name \in DOMAIN ret.out.value :
                 \E e \in versioned :
                    /\ e["api_name"].s = name
                    /\ VersionOf(e) = [VersionOf(e) EXCEPT
                                         !.raised = "None",
                                         !.value = ret.out.value[name]]
       ELSE \E e \in versioned : VersionOf(e).raised = ret.out.raised

\* of an entry with a status, an entry without one and an entry without a
\* version, the first two were given versions: rc.3 after the rc.2 on
\* record, and the target itself
C18_Witness ==
    /\ Returned("calculate_versions_for_plan")
    /\ "apis" \in DOMAIN ret.arg.d
    /\ Cardinality(Versioned(ret.arg)) = 2
    /\ ret.out.value
          = (<<"qod">> :> Extended(Version("1", "2", "0"), <<"rc">>, 3))
            @@ (<<"loc">> :> Version("0", "3", "1"))

(***************************************************************************)
(* Claims on the snapshot query (SpecSnapshot)                             *)
(***************************************************************************)
\* the release-metadata document of a branch is a mapping whose repository
\* and dependencies entries are mappings
ConformingMetadata(content) ==
    /\ content # NoFile
    /\ ~content.empty
    /\ IsDict(content.parsed)
    /\ {"repository", "dependencies"} \subseteq DOMAIN content.parsed.d
    /\ IsDict(content.parsed.d["repository"])
    /\ IsDict(content.parsed.d["dependencies"])

\* C20. get_current_snapshot raised nothing; it returned None exactly when
\* no branch matches release-snapshot/{release_tag}-*, and a SnapshotInfo
\* otherwise; when the release-metadata of the branch is absent, unparseable
\* or not a mapping with mapping-valued repository and dependencies entries,
\* the SnapshotInfo has the SHA of the branch as src_commit_sha, release_type
\* '', no apis and empty dependency fields.
C20_SnapshotNeverRaises ==
    Done("get_current_snapshot")
    => /\ ret.out.raised = "None"
       /\ ret.out.value = PyNone <=> ~SnapshotBranchMatches(ret.arg)
       /\ SnapshotBranchMatches(ret.arg)
            => LET branch == branches[Head(list_branches(ret.arg))] IN
               /\ ret.out.value.k = "SnapshotInfo"
               /\ ~ConformingMetadata(branch.metadata)
                    => /\ ret.out.value.src_commit_sha = PyStr(<<branch.sha>>)
                       /\ ret.out.value.release_type = EmptyStr
                       /\ ret.out.value.apis = PyListOf(<<>>)
                       /\ ret.out.value.commonalities_release = EmptyStr
                       /\ ret.out.value.identity_consent_management_release
                             = EmptyStr

(***************************************************************************)
(* Claims on the versions of published releases (SpecRelease)              *)
(***************************************************************************)
\* C16. Each pre-release version has a unique extension number: no two
\* published releases carry, for the same API, pre-release versions that
\* render to the same URL version, every version having been calculated by
\* calculate_version when the snapshot of its release was created.
C16_UniqueExtensions ==
    \A r1, r2 \in RecordedAt :
        (/\ r1[1] # r2[1]
         /\ Recorded(r1)["api_name"] = Recorded(r2)["api_name"]
         /\ IsPreRelease(Recorded(r1)["api_version"].s)
         /\ IsPreRelease(Recorded(r2)["api_version"].s))
        => calculate_url_version(Recorded(r1)["api_version"].s)
              # calculate_url_version(Recorded(r2)["api_version"].s)

\* C21. With several snapshot branches for the release tag,
\* get_current_snapshot returned the most recent one by branch creation
\* time: no matching branch was created after the one returned.
C21_MostRecentSnapshot ==
    (Returned("get_current_snapshot") /\ ret.out.value # PyNone)
    => \A n \in DOMAIN branches :
          fnmatch(n, ret.arg)
          => branches[n].created <= ret.out.value.created_at.n

(***************************************************************************)
(* Claims on the reported release (SpecQuery)                               *)
(***************************************************************************)
\* get_current_release_info returned a successful result
InfoSucceeded ==
    /\ ret.op = "get_current_release_info"
    /\ ret.out.raised = "None"
    /\ ret.out.success

\* the plan's target_release_tag, of a plan that passed validation
PlanTag == plan.parsed.d["repository"].d["target_release_tag"]

\* the release-metadata.yaml document on the first matching snapshot branch
FirstSnapshotMetadata == branches[Head(list_branches(PlanTag.s))].metadata

\* the document is readable and carries a repository.release_tag
CarriesTag(content) ==
    /\ content # NoFile
    /\ ~content.empty
    /\ IsDict(content.parsed)
    /\ "repository" \in DOMAIN content.parsed.d
    /\ IsDict(content.parsed.d["repository"])
    /\ "release_tag" \in DOMAIN content.parsed.d["repository"].d
    /\ Truthy(content.parsed.d["repository"].d["release_tag"])

\* C22. Effective release tag: a successful get_current_release_info
\* reported repository.release_tag of the release-metadata on the first
\* matching snapshot branch when a snapshot exists and that metadata is
\* readable and carries one, and the plan's target_release_tag in every
\* other case; source is 'tag' in the Published state,
\* 'release-metadata.yaml' when a snapshot branch exists and
\* 'release-plan.yaml' otherwise; snapshot_branch is non-null exactly in the
\* SnapshotActive and DraftReady states.
C22_EffectiveTag ==
    InfoSucceeded
    => LET snapshot == /\ PlanTag.s \notin tags
                       /\ SnapshotBranchMatches(PlanTag.s)
       IN /\ ret.out.release_tag
                = IF snapshot /\ CarriesTag(FirstSnapshotMetadata)
                  THEN FirstSnapshotMetadata.parsed.d["repository"]
                                            .d["release_tag"]
                  ELSE PlanTag
          /\ ret.out.source
                = IF ret.out.state = STATE_PUBLISHED THEN "tag"
                  ELSE IF snapshot THEN "release-metadata.yaml"
                  ELSE "release-plan.yaml"
          /\ ret.out.snapshot_branch # PyNone
                <=> ret.out.state
                        \in {STATE_SNAPSHOT_ACTIVE, STATE_DRAFT_READY}

\* a release type is available: the plan has target_release_type, or the
\* release-metadata of the snapshot has repository.release_type
TypeAvailable ==
    \/ "target_release_type" \in DOMAIN plan.parsed.d["repository"].d
    \/ /\ SnapshotBranchMatches(PlanTag.s)
       /\ CarriesTag(FirstSnapshotMetadata)
       /\ "release_type"
             \in DOMAIN FirstSnapshotMetadata.parsed.d["repository"].d

\* C23. A successful get_current_release_info reported a non-null
\* release_type whenever a release type is available, and in the
\* SnapshotActive and DraftReady states the release type of the active
\* snapshot.
C23_ReleaseTypeReported ==
    InfoSucceeded
    => /\ TypeAvailable => ret.out.release_type # PyNone
       /\ ret.out.state \in {STATE_SNAPSHOT_ACTIVE, STATE_DRAFT_READY}
            => LET snapshot == get_current_snapshot(PlanTag.s) IN
               snapshot.raised = "None"
               => ret.out.release_type = snapshot.value.release_type

(***************************************************************************)
(* Claims on the runs of create_snapshot (SpecCreate, SpecRace)            *)
(***************************************************************************)
PastValidation == {"prepare", "snapshot", "review", "pr"}

Refusing ==
    {STATE_PUBLISHED, STATE_SNAPSHOT_ACTIVE, STATE_DRAFT_READY,
     STATE_NOT_PLANNED}

\* C24. A run of create_snapshot is past its validation, or succeeds, only
\* if derive_state returned Planned to it; a run to which derive_state
\* returned Published, SnapshotActive, DraftReady or NotPlanned has returned
\* success = false with exactly one error, and has performed no version
\* calculation, clone, branch creation, push or pull-request creation.
C24_OnlyPlannedProceeds ==
    \A r \in Runs :
      LET run == ret.run[r] IN
      /\ (run.pc \in PastValidation \/ run.success)
            => run.state = STATE_PLANNED
      /\ run.state \in Refusing
            => /\ run.pc = "done"
               /\ ~run.success
               /\ Len(run.errors) = 1
               /\ run.performed = <<>>

\* A run was refused for a release that the plan targets, because a snapshot
\* of it exists.
C24_Witness ==
    \E r \in Runs :
      /\ ret.run[r].pc = "done"
      /\ ret.run[r].state = STATE_SNAPSHOT_ACTIVE
      /\ PlanTargets(ret.run[r].release_tag)
      /\ ~ret.run[r].success

IsDelete(p) == p.op = "delete_remote_branch"

\* the run that pushed the commit a branch points to
HeadOf(b) == IF "head" \in DOMAIN b THEN b.head ELSE "none"

\* the run returns in this step, having failed after it passed validation
FailsAfterValidation(before, after) ==
    /\ before.pc # "done"
    /\ after.pc = "done"
    /\ after.state = STATE_PLANNED
    /\ ~after.success

\* C25. Whenever a run of create_snapshot fails after passing validation, it
\* returns success = false; if the branches of the snapshot were named, it
\* has attempted to delete the release-review branch and then the
\* release-snapshot branch; if a branch that it pushed remains, a warning
\* reports it; and if the deletions were made without a warning, no branch
\* pushed by the run remains and derive_state(release_tag) is Planned.
C25_CleanupOnFailure ==
    [][\A r \in Runs :
        FailsAfterValidation(ret.run[r], ret'.run[r]) =>
          LET after == ret'.run[r]
              deletions == SelectSeq(after.performed, IsDelete)
              remaining == {n \in DOMAIN branches' :
                              HeadOf(branches'[n]) = r}
          IN /\ after.snapshot_branch # PyNone
                  => deletions
                       = <<Performed("delete_remote_branch",
                                     after.release_review_branch),
                           Performed("delete_remote_branch",
                                     after.snapshot_branch)>>
             /\ remaining # {} => after.warnings # <<>>
             /\ (deletions # <<>> /\ after.warnings = <<>>)
                  => /\ remaining = {}
                     /\ derive_state(ret.run[r].release_tag).value'
                            = STATE_PLANNED
      ]_vars

\* C30. A failing run of create_snapshot deletes only branches that it
\* created: no step of a run removes a branch that another run pushed and
\* succeeded with, however the two runs interleave.
C30_FailingRunSparesOther ==
    [][\A r \in Runs, o \in Runs :
        (o # r /\ ret.run[o].success /\ ret'.run[r] # ret.run[r])
          => \A n \in DOMAIN branches :
                HeadOf(branches[n]) = o => n \in DOMAIN branches'
      ]_vars

(***************************************************************************)
(* Claims on publish_release (SpecPublish)                                 *)
(***************************************************************************)
HasReleaseDate(content) ==
    /\ ~NotContent(content)
    /\ content.parsed # YAMLError
    /\ IsDict(content.parsed)
    /\ IsDict(Get(content.parsed, "repository", PyNone))
    /\ "release_date" \in DOMAIN content.parsed.d["repository"].d

Made(calls, op) == \E i \in 1..Len(calls) : calls[i].op = op

Ok(calls, op) == \E i \in 1..Len(calls) : calls[i].op = op /\ calls[i].ok

RetryDone == ret.op = "retry_on_not_found" /\ ret.out.raised # "calling"

NotFoundError(outcome) ==
    /\ outcome.exc = GitHubClientError
    /\ IsNotFoundMessage(lower(outcome.msg))

\* what holds of a call of retry_on_not_found, finished or not
RetryInvariant ==
    LET max_retries == ret.arg.max_retries
        fn == ret.arg.fn
        calls == ret.calls
    IN /\ calls <= max_retries
       /\ \A i \in 1..(calls - 1) : NotFoundError(fn[i])
       /\ RetryDone =>
            /\ ret.sleeps = [i \in 1..(calls - 1) |-> ret.arg.delay * i]
            /\ ret.out.raised = "None"
                 => IF calls = 0
                    THEN max_retries = 0 /\ ret.out.value = PyNone
                    ELSE /\ fn[calls] = FnReturns
                         /\ ret.out.value = PyInt(calls)
            /\ ret.out.raised # "None"
                 => /\ fn[calls] = FnRaises(ret.out.raised, ret.out.value)
                    /\ NotFoundError(fn[calls]) => calls = max_retries
            /\ (max_retries > 0 /\ fn[1].exc = GitHubClientError
                                /\ ~NotFoundError(fn[1]))
                 => /\ calls = 1
                    /\ ret.sleeps = <<>>
                    /\ ret.out = [raised |-> fn[1].exc, value |-> fn[1].msg]
            /\ (max_retries > 0 /\ \A i \in 1..max_retries :
                                        NotFoundError(fn[i]))
                 => /\ calls = max_retries
                    /\ ret.out = [raised |-> GitHubClientError,
                                  value |-> fn[max_retries].msg]

\* C27. retry_on_not_found(fn, max_retries, delay) terminates, after at most
\* max_retries calls of fn.  It returns the result of the first call that
\* succeeds; every call but the last made was answered by a
\* GitHubClientError with '404' or 'not found' in its message and followed
\* by a sleep of delay * (number of the attempt), and nothing is slept after
\* the last call; a GitHubClientError that is not a not-found error is
\* raised by the attempt that met it, after a single call and no sleep when
\* it is the first; when every attempt meets a not-found error, the last
\* error is raised after exactly max_retries calls.
C27_RetryOnNotFound == []RetryInvariant /\ <>RetryDone

\* Two not-found errors were retried, each after its sleep, and the third
\* call succeeded.
C27_Witness ==
    /\ RetryDone
    /\ ret.out.raised = "None"
    /\ ret.out.value = PyInt(3)
    /\ ret.sleeps = <<ret.arg.delay, 2 * ret.arg.delay>>
    /\ ret.arg.delay = 2

(***************************************************************************)
(* Claims on sync_release_issue (SpecSync)                                 *)
(***************************************************************************)
\* the open workflow-owned issues for release_tag: marker in the body,
\* release tag in the title (all issues carry the release-issue label)
WorkflowOwned(release_tag) ==
    {i \in issues : i.marker /\ TagInTitle(release_tag, i.title)}

\* target_release_tag of the plan on main, as sync_release_issue reads it
SyncTag ==
    Get(Get(_read_release_plan, "repository", EmptyDict),
        "target_release_tag", EmptyStr)

\* what every call of sync_release_issue does
SyncCalls ==
    [][(\E post_ok \in BOOLEAN : SyncReleaseIssue(post_ok)) =>
        LET out == ret'.out
            returned == out.raised = "None"
        IN IF ~Truthy(SyncTag)
           THEN /\ out.action = "none"
                /\ out.reason = "missing_release_tag"
                /\ out.calls = <<>>
                /\ issues' = issues
           ELSE LET owned == WorkflowOwned(SyncTag.s)
                    state == derive_state(SyncTag.s).value
                IN /\ Cardinality(issues') > Cardinality(issues)
                        => state = STATE_PLANNED /\ owned = {}
                   /\ owned # {}
                        => /\ Cardinality(issues') = Cardinality(issues)
                           /\ returned
                           /\ \/ out.action = "updated"
                              \/ /\ out.action = "none"
                                 /\ out.reason = "up_to_date"
                   /\ (owned = {} /\ state # STATE_PLANNED)
                        => /\ returned
                           /\ out.action = "none"
                           /\ out.reason = "no_planned_release"
                           /\ issues' = issues
      ]_vars

\* C28. In every call of sync_release_issue: an issue is created only when
\* the derived state is Planned and no open workflow-owned issue exists for
\* the release tag; when one exists no issue is created and the call returns
\* 'updated' or 'none'/'up_to_date'; when none exists and the state is not
\* Planned it returns 'none'/'no_planned_release'; a plan without
\* target_release_tag gives 'none'/'missing_release_tag' and no repository
\* operation.  Hence, in every state reached by such calls, at most one open
\* workflow-owned issue exists per release tag.
C28_OneIssuePerTag ==
    /\ SyncCalls
    /\ [](\A t \in Tags : Cardinality(WorkflowOwned(t)) <= 1)

(***************************************************************************)
(* Claims on derive_state during a publication (SpecOverlap)               *)
(***************************************************************************)
\* the call is over and the release was published while it ran: it was seen
\* before its publication and as Published
OverlappedPublication ==
    /\ ret.op = "derive_state"
    /\ ret.pc = "done"
    /\ STATE_PUBLISHED \in ret.held
    /\ ret.held \cap {STATE_SNAPSHOT_ACTIVE, STATE_DRAFT_READY} # {}

\* C29. A call of derive_state(release_tag) during which the release is
\* published (the tag created, then the snapshot branch deleted) returns
\* SnapshotActive, DraftReady or Published, a state of the release before or
\* after its publication, and never Planned or NotPlanned.
C29_StateDuringPublication ==
    OverlappedPublication
    => ret.out \in {STATE_SNAPSHOT_ACTIVE, STATE_DRAFT_READY,
                    STATE_PUBLISHED}

====
